---------------------------- MODULE Spec2Model ----------------------------
(***************************************************************************)
(* Model of scripts/latest_version.py: the two winget table parsers        *)
(* (parse_winget_list_output, parse_winget_upgrade_output), the reconciler *)
(* merge_installed_with_upgradable and main; and of                        *)
(* AutoAgent (install_application, run, stop) of scripts/auto_agent.py.    *)
(*                                                                         *)
(* A Python str is a sequence of characters.  A printable ASCII character  *)
(* is the one-character TLA+ string; "\n", "\t", "\r" are the usual        *)
(* escapes; every other character is written by its code point, e.g.       *)
(* "U+00A6" is the broken bar and "U+00E9" is e-acute.  Python indices are *)
(* 0-based, TLA+ sequences 1-based: the operators below take and return    *)
(* Python indices.                                                         *)
(***************************************************************************)
EXTENDS Integers, Sequences, FiniteSets, TLC

VARIABLES
    output,            \* the raw text handed to the parsers
    called,            \* which of "list", "upgrade", "merge" have run
    apps,              \* parse_winget_list_output: `apps` at line 210
    all_apps,          \* result of parse_winget_list_output (installed_apps)
    upgrade_apps,      \* parse_winget_upgrade_output: `apps` at line 108
    outdated_apps,     \* result of parse_winget_upgrade_output (upgradable_apps)
    apps_with_latest,  \* result of merge_installed_with_upgradable
    raised,            \* TRUE once a call has raised an exception
    scan,              \* the data-line loop in progress: <<>> or <<its frame>>
    installed,         \* main: <<>> for None, <<text>> for a str
    upgradable,        \* main: <<>> for None, <<text>> for a str
    printed,           \* main: the values given to print(json.dumps(...))
    pc,                \* main: the statement to run next
    installation_method,  \* install_application: its argument
    requested_id,      \* install_application: its argument app_id
    agent_pc,          \* AutoAgent: the statement the main thread runs next
    stop_pc,           \* AutoAgent.stop: for each call of it, in order, the
                       \* statement it runs next
    sent,              \* the send_status calls made, in order
    ran,               \* the subprocess.run calls made, in order
    result,            \* install_application: <<>> or <<the value returned>>
    running,           \* AutoAgent: self.running
    beats,             \* run: how many times time.sleep(30) has ended
    calls              \* the methods of the agent called so far, in order

mainVars == <<installed, upgradable, printed, pc>>

agentVars == <<installation_method, requested_id, agent_pc, stop_pc, sent, ran,
               result, running, beats, calls>>

vars == <<output, called, apps, all_apps, upgrade_apps, outdated_apps,
          apps_with_latest, raised, scan, mainVars, agentVars>>

---------------------------------------------------------------------------
(* Characters *)

\* str.isspace(): the whitespace characters of the alphabet used here
PyWhitespace ==
    {" ", "\t", "\n", "\r", "U+000B", "U+000C", "U+001C", "U+001D", "U+001E",
     "U+001F", "U+0085", "U+00A0", "U+2028", "U+2029"}

\* the line boundaries of str.splitlines()
LineBoundaries ==
    {"\n", "\r", "U+000B", "U+000C", "U+001C", "U+001D", "U+001E", "U+0085",
     "U+2028", "U+2029"}

\* the characters above U+007F of the alphabet used here
NonAscii == {"U+00A6", "U+00E9", "U+0085", "U+00A0", "U+2028", "U+2029"}

Digits == {"0", "1", "2", "3", "4", "5", "6", "7", "8", "9"}

BrokenBar == "U+00A6"

IsSpace(c) == c \in PyWhitespace

SetMin(S) == CHOOSE x \in S : \A y \in S : x <= y

SetMax(S) == CHOOSE x \in S : \A y \in S : x >= y

---------------------------------------------------------------------------
(* Python str operations *)

\* s.strip()
Strip(s) ==
    LET keep == {i \in 1..Len(s) : ~IsSpace(s[i])}
    IN  IF keep = {} THEN <<>> ELSE SubSeq(s, SetMin(keep), SetMax(keep))

\* s[start:stop] with Python's clamping and negative indices
PySlice(s, start, stop) ==
    LET n  == Len(s)
        lo == IF start < 0 THEN (IF start + n < 0 THEN 0 ELSE start + n)
              ELSE (IF start > n THEN n ELSE start)
        hi == IF stop < 0 THEN (IF stop + n < 0 THEN 0 ELSE stop + n)
              ELSE (IF stop > n THEN n ELSE stop)
    IN  IF lo >= hi THEN <<>> ELSE SubSeq(s, lo + 1, hi)

\* s[start:]
PySliceFrom(s, start) == PySlice(s, start, Len(s))

\* s[i]; "IndexError" stands for the exception
PyIndex(s, i) ==
    IF i >= 0 /\ i < Len(s) THEN s[i + 1]
    ELSE IF i < 0 /\ -i <= Len(s) THEN s[Len(s) + i + 1]
    ELSE "IndexError"

\* s.find(sub): the first index of sub in s, or -1
Find(s, sub) ==
    LET occ == {i \in 0..(Len(s) - Len(sub)) :
                   SubSeq(s, i + 1, i + Len(sub)) = sub}
    IN  IF occ = {} THEN -1 ELSE SetMin(occ)

\* sub in s
Contains(s, sub) == Find(s, sub) # -1

\* s.startswith(c) for a one-character prefix
StartsWith(s, c) == Len(s) > 0 /\ s[1] = c

\* the k-th smallest element of a set of numbers
Nth(S, k) == CHOOSE x \in S : Cardinality({y \in S : y < x}) = k - 1

\* s.splitlines(): a line ends at each line boundary, "\r\n" counting as one
\* boundary; text after the last boundary is a last line
SplitLines(s) ==
    LET IsCrLf(i) == i > 1 /\ s[i] = "\n" /\ s[i - 1] = "\r"
        ends == {i \in 1..Len(s) :
                    /\ s[i] \in LineBoundaries
                    /\ ~(i < Len(s) /\ IsCrLf(i + 1))}
        n    == Cardinality(ends)
        From(k) == IF k = 1 THEN 1 ELSE Nth(ends, k - 1) + 1
        To(k)   == IF IsCrLf(Nth(ends, k)) THEN Nth(ends, k) - 2
                   ELSE Nth(ends, k) - 1
        whole == [k \in 1..n |-> SubSeq(s, From(k), To(k))]
    IN  IF n = 0 THEN (IF s = <<>> THEN <<>> ELSE <<s>>)
        ELSE IF Nth(ends, n) < Len(s)
        THEN Append(whole, SubSeq(s, Nth(ends, n) + 1, Len(s)))
        ELSE whole

\* s.split(): the maximal runs of non-whitespace characters
Split(s) ==
    LET ends == {i \in 1..Len(s) :
                    ~IsSpace(s[i]) /\ (i = Len(s) \/ IsSpace(s[i + 1]))}
        Start(e) == SetMax({j \in 1..e : j = 1 \/ IsSpace(s[j - 1])})
    IN  [k \in 1..Cardinality(ends) |->
            SubSeq(s, Start(Nth(ends, k)), Nth(ends, k))]

RECURSIVE Join(_, _)
\* sep.join(parts)
Join(parts, sep) ==
    IF parts = <<>> THEN <<>>
    ELSE IF Len(parts) = 1 THEN parts[1]
    ELSE parts[1] \o sep \o Join(Tail(parts), sep)

\* ' '.join(s.split())
CollapseWhitespace(s) == Join(Split(s), <<" ">>)

IsAscii(c) == c \notin NonAscii

\* s.encode('ascii', 'ignore').decode('ascii')
AsciiIgnore(s) == SelectSeq(s, IsAscii)

\* s.replace(c, '') for a single character c
RemoveChar(s, c) == SelectSeq(s, LAMBDA x : x # c)

\* s.isdigit(), for s of ASCII characters
IsDigit(s) == Len(s) > 0 /\ \A i \in 1..Len(s) : s[i] \in Digits

---------------------------------------------------------------------------
(* Header keywords *)

Name == <<"N", "a", "m", "e">>

Id == <<"I", "d">>

Version == <<"V", "e", "r", "s", "i", "o", "n">>

Available == <<"A", "v", "a", "i", "l", "a", "b", "l", "e">>

Source == <<"S", "o", "u", "r", "c", "e">>

Unknown == <<"U", "n", "k", "n", "o", "w", "n">>

---------------------------------------------------------------------------
(* Steps shared by the two parsers (the source repeats them verbatim) *)

\* IsHeader that forgets the Id keyword
IsHeaderNameVersion(line) == Contains(line, Name) /\ Contains(line, Version)

\* "Name" in line and "Id" in line and "Version" in line
IsHeader(line) ==
    Contains(line, Name) /\ Contains(line, Id) /\ Contains(line, Version)

\* the index i of the first header line (the loop's break), or -1 when
\* header_line stays None
HeaderIndex(lines) ==
    LET hits == {i \in 0..(Len(lines) - 1) : IsHeader(lines[i + 1])}
    IN  IF hits = {} THEN -1 ELSE SetMin(hits)

\* DataStartIndex that takes the line after the header as data
DataStartIndexNext(i) == i + 1

\* data_start_index = i + 2
DataStartIndex(i) == i + 2

\* not line.strip() or line.startswith("-")
SkipLine(line) == Strip(line) = <<>> \/ StartsWith(line, "-")

\* LengthGuard left out: line[name_start] is read on every data line
LengthGuardAlways(line, name_start) == TRUE

\* len(line) > name_start
LengthGuard(line, name_start) == Len(line) > name_start

\* SaveApp that also asks for a non-empty id
SaveAppWithId(acc, current_app) ==
    IF /\ current_app # <<>>
       /\ current_app[1].name # <<>>
       /\ current_app[1].id # <<>>
       /\ current_app[1].current_version # <<>>
    THEN Append(acc, current_app[1])
    ELSE acc

\* SaveApp that puts the app in front of the list
SaveAppInFront(acc, current_app) ==
    IF /\ current_app # <<>>
       /\ current_app[1].name # <<>>
       /\ current_app[1].current_version # <<>>
    THEN <<current_app[1]>> \o acc
    ELSE acc

\* current_app and current_app.get("name") and current_app.get("current_version");
\* current_app is <<>> for None and <<app>> for a dict
SaveApp(acc, current_app) ==
    IF /\ current_app # <<>>
       /\ current_app[1].name # <<>>
       /\ current_app[1].current_version # <<>>
    THEN Append(acc, current_app[1])
    ELSE acc

\* '.' in part or part.replace('.', '').replace('-', '').isdigit()
LooksLikeVersion(part) ==
    \/ \E i \in 1..Len(part) : part[i] = "."
    \/ IsDigit(RemoveChar(RemoveChar(part, "."), "-"))

\* CleanVersion that always takes the first token
CleanVersionFirstToken(v) ==
    LET version == Strip(RemoveChar(v, BrokenBar))
        parts   == Split(version)
    IN  IF parts # <<>> THEN parts[1] ELSE version

\* the "additional cleanup for version strings" of the filter pass
CleanVersion(v) ==
    LET version == Strip(RemoveChar(v, BrokenBar))
        parts   == Split(version)
        hits    == {i \in 1..Len(parts) : LooksLikeVersion(parts[i])}
    IN  IF parts # <<>>
        THEN IF hits # {} THEN parts[SetMin(hits)] ELSE parts[1]
        ELSE version

\* the state of the data-line loop before its first iteration
ScanInit == [apps |-> <<>>, current_app |-> <<>>, raised |-> FALSE]

---------------------------------------------------------------------------
(* parse_winget_list_output *)

\* find() of each column keyword in the header line
ListColumns(header_line) ==
    [name_start    |-> Find(header_line, Name),
     id_start      |-> Find(header_line, Id),
     version_start |-> Find(header_line, Version),
     source_start  |-> Find(header_line, Source)]

\* ListEntry that reads the id as the first whitespace-separated token at
\* the Id offset instead of the fixed-width slice
ListEntryIdToken(line, c) ==
    LET name == IF c.id_start > c.name_start
                THEN Strip(PySlice(line, c.name_start, c.id_start))
                ELSE Strip(PySliceFrom(line, c.name_start))
        id_tokens == Split(PySliceFrom(line, c.id_start))
        app_id == IF id_tokens # <<>> THEN id_tokens[1] ELSE <<>>
        current_version ==
                IF c.source_start > c.version_start
                THEN Strip(PySlice(line, c.version_start, c.source_start))
                ELSE Strip(PySliceFrom(line, c.version_start))
    IN  [name            |-> Strip(AsciiIgnore(name)),
         id              |-> Strip(AsciiIgnore(app_id)),
         current_version |-> CollapseWhitespace(Strip(AsciiIgnore(current_version)))]

\* ListEntry whose version slice always runs to the end of the line
ListEntryToEndOfLine(line, c) ==
    LET name == IF c.id_start > c.name_start
                THEN Strip(PySlice(line, c.name_start, c.id_start))
                ELSE Strip(PySliceFrom(line, c.name_start))
        app_id == IF c.version_start > c.id_start
                  THEN Strip(PySlice(line, c.id_start, c.version_start))
                  ELSE <<>>
        current_version == Strip(PySliceFrom(line, c.version_start))
    IN  [name            |-> Strip(AsciiIgnore(name)),
         id              |-> Strip(AsciiIgnore(app_id)),
         current_version |-> CollapseWhitespace(Strip(AsciiIgnore(current_version)))]

\* ListEntry without the ASCII encoding step
ListEntryKeepAll(line, c) ==
    LET name == IF c.id_start > c.name_start
                THEN Strip(PySlice(line, c.name_start, c.id_start))
                ELSE Strip(PySliceFrom(line, c.name_start))
        app_id == IF c.version_start > c.id_start
                  THEN Strip(PySlice(line, c.id_start, c.version_start))
                  ELSE <<>>
        current_version ==
                IF c.source_start > c.version_start
                THEN Strip(PySlice(line, c.version_start, c.source_start))
                ELSE Strip(PySliceFrom(line, c.version_start))
    IN  [name            |-> name,
         id              |-> app_id,
         current_version |-> CollapseWhitespace(current_version)]

\* ListEntry that does not trim the name and the id
ListEntryUntrimmed(line, c) ==
    LET name == IF c.id_start > c.name_start
                THEN PySlice(line, c.name_start, c.id_start)
                ELSE PySliceFrom(line, c.name_start)
        app_id == IF c.version_start > c.id_start
                  THEN PySlice(line, c.id_start, c.version_start)
                  ELSE <<>>
        current_version ==
                IF c.source_start > c.version_start
                THEN Strip(PySlice(line, c.version_start, c.source_start))
                ELSE Strip(PySliceFrom(line, c.version_start))
    IN  [name            |-> AsciiIgnore(name),
         id              |-> AsciiIgnore(app_id),
         current_version |-> CollapseWhitespace(Strip(AsciiIgnore(current_version)))]

\* the dict built for a line that starts a new app entry
ListEntry(line, c) ==
    LET name == IF c.id_start > c.name_start
                THEN Strip(PySlice(line, c.name_start, c.id_start))
                ELSE Strip(PySliceFrom(line, c.name_start))
        app_id == IF c.version_start > c.id_start
                  THEN Strip(PySlice(line, c.id_start, c.version_start))
                  ELSE <<>>
        current_version ==
                IF c.source_start > c.version_start
                THEN Strip(PySlice(line, c.version_start, c.source_start))
                ELSE Strip(PySliceFrom(line, c.version_start))
    IN  [name            |-> Strip(AsciiIgnore(name)),
         id              |-> Strip(AsciiIgnore(app_id)),
         current_version |-> CollapseWhitespace(Strip(AsciiIgnore(current_version)))]

\* ListStep that flushes the pending app at a continuation line
ListStepFlush(st, line, c) ==
    IF st.raised \/ SkipLine(line) THEN st
    ELSE IF ~LengthGuard(line, c.name_start)
    THEN [st EXCEPT !.apps = SaveApp(st.apps, st.current_app),
                    !.current_app = <<>>]
    ELSE IF PyIndex(line, c.name_start) = "IndexError"
    THEN [st EXCEPT !.raised = TRUE]
    ELSE IF PyIndex(line, c.name_start) # " "
    THEN [st EXCEPT !.apps = SaveApp(st.apps, st.current_app),
                    !.current_app = <<ListEntry(line, c)>>]
    ELSE [st EXCEPT !.apps = SaveApp(st.apps, st.current_app),
                    !.current_app = <<>>]

\* one iteration of the data-line loop
ListStep(st, line, c) ==
    IF st.raised \/ SkipLine(line) THEN st
    ELSE IF ~LengthGuard(line, c.name_start) THEN st
    ELSE IF PyIndex(line, c.name_start) = "IndexError"
    THEN [st EXCEPT !.raised = TRUE]
    ELSE IF PyIndex(line, c.name_start) # " "
    THEN [st EXCEPT !.apps = SaveApp(st.apps, st.current_app),
                    !.current_app = <<ListEntry(line, c)>>]
    ELSE st

RECURSIVE ListScan(_, _, _, _)
\* the data-line loop over data[k..]
ListScan(data, c, k, st) ==
    IF k > Len(data) THEN st
    ELSE ListScan(data, c, k + 1, ListStep(st, data[k], c))

\* ListAccumulate without the three-line guard and taking the line right
\* after the header as the first data line
ListAccumulateFromHeader(text) ==
    LET lines == SplitLines(Strip(text))
        h     == HeaderIndex(lines)
    IN  IF h = -1
        THEN [apps |-> <<>>, raised |-> FALSE]
        ELSE LET c  == ListColumns(lines[h + 1])
                 st == ListScan(PySliceFrom(lines, h + 1), c, 1, ScanInit)
             IN  [apps |-> SaveApp(st.apps, st.current_app), raised |-> st.raised]

\* lines 149-209: `apps` after the last app was flushed, and whether the
\* function raised on the way
ListAccumulate(text) ==
    LET lines == SplitLines(Strip(text))
        h     == HeaderIndex(lines)
    IN  IF Len(lines) < 3 \/ h = -1
        THEN [apps |-> <<>>, raised |-> FALSE]
        ELSE LET c  == ListColumns(lines[h + 1])
                 st == ListScan(PySliceFrom(lines, DataStartIndex(h)), c, 1, ScanInit)
             IN  [apps |-> SaveApp(st.apps, st.current_app), raised |-> st.raised]

\* ListKeep without the name-length test
ListKeepAnyName(app) == app.name # <<>> /\ app.current_version # <<>>

\* the condition of the filter pass
ListKeep(app) ==
    app.name # <<>> /\ app.current_version # <<>> /\ Len(app.name) > 1

\* lines 211-236: valid_apps
ListFilter(acc) ==
    LET kept == SelectSeq(acc, ListKeep)
    IN  [i \in 1..Len(kept) |->
            [kept[i] EXCEPT !.current_version = CleanVersion(@)]]

parse_winget_list_output(text) == ListFilter(ListAccumulate(text).apps)

---------------------------------------------------------------------------
(* parse_winget_upgrade_output *)

UpgradeColumns(header_line) ==
    [name_start      |-> Find(header_line, Name),
     id_start        |-> Find(header_line, Id),
     version_start   |-> Find(header_line, Version),
     available_start |-> Find(header_line, Available),
     source_start    |-> Find(header_line, Source)]

\* UpgradeEntry whose current_version runs to the end of the line when
\* Available is not after Version
UpgradeEntryRestOfLine(line, c) ==
    LET name == IF c.id_start > c.name_start
                THEN Strip(PySlice(line, c.name_start, c.id_start))
                ELSE Strip(PySliceFrom(line, c.name_start))
        app_id == IF c.version_start > c.id_start
                  THEN Strip(PySlice(line, c.id_start, c.version_start))
                  ELSE <<>>
        current_version ==
                IF c.available_start > c.version_start
                THEN Strip(PySlice(line, c.version_start, c.available_start))
                ELSE Strip(PySliceFrom(line, c.version_start))
        available_version ==
                IF c.source_start > c.available_start
                THEN Strip(PySlice(line, c.available_start, c.source_start))
                ELSE Strip(PySliceFrom(line, c.available_start))
    IN  [name              |-> Strip(AsciiIgnore(name)),
         id                |-> Strip(AsciiIgnore(app_id)),
         current_version   |-> CollapseWhitespace(Strip(AsciiIgnore(current_version))),
         available_version |-> CollapseWhitespace(Strip(AsciiIgnore(available_version)))]

UpgradeEntry(line, c) ==
    LET name == IF c.id_start > c.name_start
                THEN Strip(PySlice(line, c.name_start, c.id_start))
                ELSE Strip(PySliceFrom(line, c.name_start))
        app_id == IF c.version_start > c.id_start
                  THEN Strip(PySlice(line, c.id_start, c.version_start))
                  ELSE <<>>
        current_version ==
                IF c.available_start > c.version_start
                THEN Strip(PySlice(line, c.version_start, c.available_start))
                ELSE <<>>
        available_version ==
                IF c.source_start > c.available_start
                THEN Strip(PySlice(line, c.available_start, c.source_start))
                ELSE Strip(PySliceFrom(line, c.available_start))
    IN  [name              |-> Strip(AsciiIgnore(name)),
         id                |-> Strip(AsciiIgnore(app_id)),
         current_version   |-> CollapseWhitespace(Strip(AsciiIgnore(current_version))),
         available_version |-> CollapseWhitespace(Strip(AsciiIgnore(available_version)))]

UpgradeStep(st, line, c) ==
    IF st.raised \/ SkipLine(line) THEN st
    ELSE IF ~LengthGuard(line, c.name_start) THEN st
    ELSE IF PyIndex(line, c.name_start) = "IndexError"
    THEN [st EXCEPT !.raised = TRUE]
    ELSE IF PyIndex(line, c.name_start) # " "
    THEN [st EXCEPT !.apps = SaveApp(st.apps, st.current_app),
                    !.current_app = <<UpgradeEntry(line, c)>>]
    ELSE st

RECURSIVE UpgradeScan(_, _, _, _)
UpgradeScan(data, c, k, st) ==
    IF k > Len(data) THEN st
    ELSE UpgradeScan(data, c, k + 1, UpgradeStep(st, data[k], c))

\* lines 42-107
UpgradeAccumulate(text) ==
    LET lines == SplitLines(Strip(text))
        h     == HeaderIndex(lines)
    IN  IF Len(lines) < 3 \/ h = -1
        THEN [apps |-> <<>>, raised |-> FALSE]
        ELSE LET c  == UpgradeColumns(lines[h + 1])
                 st == UpgradeScan(PySliceFrom(lines, DataStartIndex(h)), c, 1, ScanInit)
             IN  [apps |-> SaveApp(st.apps, st.current_app), raised |-> st.raised]

\* UpgradeKeep without the test of available_version
UpgradeKeepAnyAvailable(app) ==
    /\ app.name # <<>>
    /\ app.current_version # <<>>
    /\ Len(app.name) > 1

\* the condition of the filter pass
UpgradeKeep(app) ==
    /\ app.name # <<>>
    /\ app.current_version # <<>>
    /\ app.available_version # <<>>
    /\ Len(app.name) > 1

\* lines 109-145: valid_apps
UpgradeFilter(acc) ==
    LET kept == SelectSeq(acc, UpgradeKeep)
    IN  [i \in 1..Len(kept) |->
            [kept[i] EXCEPT !.current_version = CleanVersion(@),
                            !.available_version = CleanVersion(@)]]

parse_winget_upgrade_output(text) == UpgradeFilter(UpgradeAccumulate(text).apps)

---------------------------------------------------------------------------
(* merge_installed_with_upgradable *)

\* HasId without the emptiness test: every upgrade record gets indexed
HasIdAnyValue(app) == "id" \in DOMAIN app

\* if app.get("id")
HasId(app) == "id" \in DOMAIN app /\ app.id # <<>>

RECURSIVE BuildLookup(_, _, _)
\* the loop filling upgrade_lookup, from upgradable_apps[k] on; a dict is a
\* function from its keys
BuildLookup(upgradable_apps, k, lookup) ==
    IF k > Len(upgradable_apps) THEN lookup
    ELSE LET app == upgradable_apps[k]
         IN  BuildLookup(upgradable_apps, k + 1,
                 IF HasId(app)
                 THEN [x \in DOMAIN lookup \cup {app.id} |->
                          IF x = app.id THEN app ELSE lookup[x]]
                 ELSE lookup)

\* UpgradeLookup in which the first record of an id is the one kept
UpgradeLookupFirst(upgradable_apps) ==
    LET ids == {upgradable_apps[j].id : j \in {i \in 1..Len(upgradable_apps) :
                                                  upgradable_apps[i].id # <<>>}}
    IN  [x \in ids |->
            upgradable_apps[SetMin({j \in 1..Len(upgradable_apps) :
                                        upgradable_apps[j].id = x})]]

\* upgrade_lookup after the loop
UpgradeLookup(upgradable_apps) == BuildLookup(upgradable_apps, 1, <<>>)

\* app.get("id", "")
AppId(app) == IF "id" \in DOMAIN app THEN app.id ELSE <<>>

\* UpdateNeeded without the "Unknown" tests
UpdateNeededByDifference(current_ver, latest_ver) == current_ver # latest_ver

\* current_ver != latest_ver and latest_ver != "Unknown" and current_ver != "Unknown"
UpdateNeeded(current_ver, latest_ver) ==
    current_ver # latest_ver /\ latest_ver # Unknown /\ current_ver # Unknown

\* {**app, "latest_version": latest, "update_available": flag}
WithLatest(app, latest, flag) ==
    [k \in DOMAIN app \cup {"latest_version", "update_available"} |->
        IF k = "latest_version" THEN latest
        ELSE IF k = "update_available" THEN flag
        ELSE app[k]]

\* the entry appended when app_id is in upgrade_lookup
HitEntry(app, upgrade_info) ==
    WithLatest(app, upgrade_info.available_version,
               UpdateNeeded(app.current_version, upgrade_info.available_version))

\* MissEntry that reports the latest version of an unmatched app as "Unknown"
MissEntryUnknown(app) == WithLatest(app, Unknown, FALSE)

\* the entry appended otherwise
MissEntry(app) == WithLatest(app, app.current_version, FALSE)

MergeEntry(app, lookup) ==
    IF AppId(app) \in DOMAIN lookup
    THEN HitEntry(app, lookup[AppId(app)])
    ELSE MissEntry(app)

\* the merge that lists only the apps found in upgrade_lookup
merge_matched_only(installed_apps, upgradable_apps) ==
    LET lookup  == UpgradeLookup(upgradable_apps)
        matched == SelectSeq(installed_apps,
                             LAMBDA app : AppId(app) \in DOMAIN lookup)
    IN  [i \in 1..Len(matched) |-> MergeEntry(matched[i], lookup)]

merge_installed_with_upgradable(installed_apps, upgradable_apps) ==
    LET lookup == UpgradeLookup(upgradable_apps)
    IN  [i \in 1..Len(installed_apps) |-> MergeEntry(installed_apps[i], lookup)]

\* a KeyError: app["current_version"] or upgrade_info["available_version"]
\* read from a dict without that key
MergeRaises(installed_apps, upgradable_apps) ==
    LET lookup == UpgradeLookup(upgradable_apps)
    IN  \E i \in 1..Len(installed_apps) :
            LET app == installed_apps[i]
            IN  \/ "current_version" \notin DOMAIN app
                \/ /\ AppId(app) \in DOMAIN lookup
                   /\ "available_version" \notin DOMAIN lookup[AppId(app)]

---------------------------------------------------------------------------
(* Inputs of the parsers: texts of a few header lines followed by data rows *)

\* "Name   Id   Version"
HeaderList ==
    <<"N", "a", "m", "e", " ", " ", " ", "I", "d", " ", " ", " ", "V", "e",
      "r", "s", "i", "o", "n">>

\* "Name Id Version Available     Source"
HeaderUpgrade ==
    <<"N", "a", "m", "e", " ", "I", "d", " ", "V", "e", "r", "s", "i", "o",
      "n", " ", "A", "v", "a", "i", "l", "a", "b", "l", "e", " ", " ", " ",
      " ", " ", "S", "o", "u", "r", "c", "e">>

\* "  Name Id Version Available"
HeaderIndented ==
    <<" ", " ", "N", "a", "m", "e", " ", "I", "d", " ", "V", "e", "r", "s",
      "i", "o", "n", " ", "A", "v", "a", "i", "l", "a", "b", "l", "e">>

\* "Name Version"
HeaderPartial ==
    <<"N", "a", "m", "e", " ", "V", "e", "r", "s", "i", "o", "n">>

\* "wg"
Banner ==
    <<"w", "g">>

\* "-----"
Rule ==
    <<"-", "-", "-", "-", "-">>

\* "7-Zip  7zip.7zip  23.01"
Row7Zip ==
    <<"7", "-", "Z", "i", "p", " ", " ", "7", "z", "i", "p", ".", "7", "z",
      "i", "p", " ", " ", "2", "3", ".", "0", "1">>

\* "Foo  F1 1.0     1.2.0 <U+00A6> 1.2.1 winget"
RowFoo ==
    <<"F", "o", "o", " ", " ", "F", "1", " ", "1", ".", "0", " ", " ", " ",
      " ", " ", "1", ".", "2", ".", "0", " ", "U+00A6", " ", "1", ".", "2",
      ".", "1", " ", "w", "i", "n", "g", "e", "t">>

\* "X    X1 2       3"
RowShortName ==
    <<"X", " ", " ", " ", " ", "X", "1", " ", "2", " ", " ", " ", " ", " ",
      " ", " ", "3">>

\* "  cont"
RowContinuation ==
    <<" ", " ", "c", "o", "n", "t">>

\* "Bar  B2 v 1.0   x 2-1"
RowWords ==
    <<"B", "a", "r", " ", " ", "B", "2", " ", "v", " ", "1", ".", "0", " ",
      " ", " ", "x", " ", "2", "-", "1">>

\* "Baz     beta rc - 5"
RowNoToken ==
    <<"B", "a", "z", " ", " ", " ", " ", " ", "b", "e", "t", "a", " ", "r",
      "c", " ", "-", " ", "5">>

\* "Q"
RowShort ==
    <<"Q">>

\* "<U+00E9>A   E1 1.0     2.0"
RowAccent ==
    <<"U+00E9", "A", " ", " ", " ", "E", "1", " ", "1", ".", "0", " ", " ",
      " ", " ", " ", "2", ".", "0">>

\* "Unk  F1 Unknown Unknown"
RowUnknown ==
    <<"U", "n", "k", " ", " ", "F", "1", " ", "U", "n", "k", "n", "o", "w",
      "n", " ", "U", "n", "k", "n", "o", "w", "n">>

\* "Id Name Version"
HeaderIdFirst ==
    <<"I", "d", " ", "N", "a", "m", "e", " ", "V", "e", "r", "s", "i", "o",
      "n">>

\* "Quux"
RowNoVersion ==
    <<"Q", "u", "u", "x">>

\* "T<tab>U  C<U+0001> 1.0     2.0"
RowControl ==
    <<"T", "\t", "U", " ", " ", "C", "U+0001", " ", "1", ".", "0", " ",
      " ", " ", " ", " ", "2", ".", "0">>

\* "<tab>ab  X1 1.0     2.0"
RowTab ==
    <<"\t", "a", "b", " ", " ", "X", "1", " ", "1", ".", "0", " ", " ",
      " ", " ", " ", "2", ".", "0">>

\* a blank line
Blank == <<>>

MaxRows == 2

\* what precedes the data rows
Prefixes ==
    {<<>>,
     <<HeaderList, Rule>>,
     <<HeaderUpgrade, Rule>>,
     <<HeaderUpgrade>>,
     <<Banner, HeaderIndented, Rule>>,
     <<HeaderPartial, Rule>>,
     <<HeaderIdFirst, Rule>>}

Rows ==
    {Row7Zip, RowFoo, RowShortName, RowContinuation, RowWords, RowNoToken,
     RowShort, RowAccent, RowUnknown, RowNoVersion, RowControl, RowTab,
     Rule, Blank}

RowSeqs == UNION {[1..n -> Rows] : n \in 0..MaxRows}

\* the raw texts: the lines joined by newlines
Inputs == {Join(p \o r, <<"\n">>) : p \in Prefixes, r \in RowSeqs}

\* a data row that has the words Name, Id and Version (offsets 0, 6, 10)
RowHeaderLike ==
    <<"N", "a", "m", "e", "1", " ", "I", "d", "2", " ",
      "V", "e", "r", "s", "i", "o", "n", "3", " ", "1", ".", "0">>

\* a row of the upgrade table with nothing in the Available column
RowNoAvailable == <<"F", "o", "o", " ", " ", "F", "1", " ", "1", ".", "0">>

\* tables whose header comes first, after other lines, without its rule, or
\* is a data row
TablePrefixes ==
    {<<HeaderUpgrade, Rule>>,
     <<HeaderUpgrade>>,
     <<HeaderList>>,
     <<RowHeaderLike>>,
     <<Banner, RowFoo, HeaderUpgrade, Rule>>}

TableRows ==
    {RowFoo, RowNoAvailable, RowHeaderLike, Row7Zip, RowContinuation,
     HeaderUpgrade, Rule, Blank}

TableRowSeqs == UNION {[1..n -> TableRows] : n \in 0..MaxRows}

TableInputs == {Join(p \o r, <<"\n">>) : p \in TablePrefixes, r \in TableRowSeqs}

\* tables for the data-line loop: a first record may be followed by
\* records, continuation lines, rules and blank lines
ScanPrefixes ==
    {<<HeaderUpgrade, Rule>>,
     <<HeaderUpgrade, Rule, RowFoo>>,
     <<HeaderList, Rule, Row7Zip>>,
     <<Banner, HeaderIndented, Rule, RowFoo>>}

ScanRows == {RowFoo, RowNoAvailable, RowContinuation, RowShort, Rule, Blank}

ScanRowSeqs == UNION {[1..n -> ScanRows] : n \in 0..MaxRows}

ScanInputs == {Join(p \o r, <<"\n">>) : p \in ScanPrefixes, r \in ScanRowSeqs}

\* what `winget upgrade` may print in main
UpgradeTexts ==
    {Join(<<HeaderUpgrade, Rule, RowFoo>>, <<"\n">>),
     Join(<<HeaderUpgrade, Rule, RowFoo, RowUnknown>>, <<"\n">>),
     Join(<<Banner>>, <<"\n">>)}

---------------------------------------------------------------------------
(* Inputs of the reconciler alone *)

MaxInstalled == 2

MaxUpgradable == 2

AppName == <<"a", "p", "p">>

LibName == <<"l", "i", "b">>

MergeIds == {<<>>, <<"A">>, <<"B">>}

InstalledPool ==
    {[name |-> n, id |-> i, current_version |-> v] :
        n \in {AppName, LibName}, i \in MergeIds, v \in {<<"1">>, Unknown}}

UpgradePool ==
    {[name |-> AppName, id |-> i, current_version |-> <<"1">>,
      available_version |-> v] :
        i \in MergeIds, v \in {<<"1">>, <<"2">>, Unknown}}

InstalledInputs == UNION {[1..n -> InstalledPool] : n \in 0..MaxInstalled}

UpgradableInputs == UNION {[1..n -> UpgradePool] : n \in 0..MaxUpgradable}

---------------------------------------------------------------------------
(* The calls *)

\* no data-line loop is being stepped through
ScanIdle == scan = <<>>

\* main is not running
MainIdle ==
    /\ installed = <<>>
    /\ upgradable = <<>>
    /\ printed = <<>>
    /\ pc = "idle"

\* no method of the agent has been called
AgentIdle ==
    /\ installation_method = "WINGET"
    /\ requested_id = ""
    /\ agent_pc = "idle"
    /\ stop_pc = <<>>
    /\ sent = <<>>
    /\ ran = <<>>
    /\ result = <<>>
    /\ running = FALSE
    /\ beats = 0
    /\ calls = <<>>

Init ==
    /\ output \in Inputs
    /\ called = {}
    /\ apps = <<>>
    /\ all_apps = <<>>
    /\ upgrade_apps = <<>>
    /\ outdated_apps = <<>>
    /\ apps_with_latest = <<>>
    /\ raised = FALSE
    /\ ScanIdle
    /\ MainIdle
    /\ AgentIdle

\* all_apps = parse_winget_list_output(output)
ParseList ==
    /\ "list" \notin called
    /\ ~raised
    /\ called' = called \cup {"list"}
    /\ LET r == ListAccumulate(output)
       IN  IF r.raised
           THEN raised' = TRUE /\ UNCHANGED <<apps, all_apps>>
           ELSE /\ apps' = r.apps
                /\ all_apps' = parse_winget_list_output(output)
                /\ UNCHANGED raised
    /\ UNCHANGED <<output, upgrade_apps, outdated_apps, apps_with_latest>>
    /\ UNCHANGED <<scan, mainVars, agentVars>>

\* outdated_apps = parse_winget_upgrade_output(output)
ParseUpgrade ==
    /\ "upgrade" \notin called
    /\ ~raised
    /\ called' = called \cup {"upgrade"}
    /\ LET r == UpgradeAccumulate(output)
       IN  IF r.raised
           THEN raised' = TRUE /\ UNCHANGED <<upgrade_apps, outdated_apps>>
           ELSE /\ upgrade_apps' = r.apps
                /\ outdated_apps' = parse_winget_upgrade_output(output)
                /\ UNCHANGED raised
    /\ UNCHANGED <<output, apps, all_apps, apps_with_latest>>
    /\ UNCHANGED <<scan, mainVars, agentVars>>

\* apps_with_latest = merge_installed_with_upgradable(all_apps, outdated_apps)
Merge ==
    /\ {"list", "upgrade"} \subseteq called
    /\ "merge" \notin called
    /\ ~raised
    /\ called' = called \cup {"merge"}
    /\ IF MergeRaises(all_apps, outdated_apps)
       THEN raised' = TRUE /\ UNCHANGED apps_with_latest
       ELSE /\ apps_with_latest' =
                   merge_installed_with_upgradable(all_apps, outdated_apps)
            /\ UNCHANGED raised
    /\ UNCHANGED <<output, apps, all_apps, upgrade_apps, outdated_apps>>
    /\ UNCHANGED <<scan, mainVars, agentVars>>

Next == ParseList \/ ParseUpgrade \/ Merge

Spec == Init /\ [][Next]_vars

\* the reconciler on arbitrary record sequences
InitMerge ==
    /\ output = <<>>
    /\ called = {"list", "upgrade"}
    /\ apps = <<>>
    /\ all_apps \in InstalledInputs
    /\ upgrade_apps = <<>>
    /\ outdated_apps \in UpgradableInputs
    /\ apps_with_latest = <<>>
    /\ raised = FALSE
    /\ ScanIdle
    /\ MainIdle
    /\ AgentIdle

NextMerge == Merge

SpecMerge == InitMerge /\ [][NextMerge]_vars

\* the parsers on tables with misplaced headers and empty columns
InitTables ==
    /\ output \in TableInputs
    /\ called = {}
    /\ apps = <<>>
    /\ all_apps = <<>>
    /\ upgrade_apps = <<>>
    /\ outdated_apps = <<>>
    /\ apps_with_latest = <<>>
    /\ raised = FALSE
    /\ ScanIdle
    /\ MainIdle
    /\ AgentIdle

SpecTables == InitTables /\ [][Next]_vars

---------------------------------------------------------------------------
(* The data-line loop of a parser, one line at a time *)

\* a parser is entered: it returns [] at once, or reaches its loop with the
\* data lines and the column offsets
ScanStart(parser) ==
    /\ scan = <<>>
    /\ parser \notin called
    /\ ~raised
    /\ LET lines == SplitLines(Strip(output))
           h     == HeaderIndex(lines)
       IN  IF Len(lines) < 3 \/ h = -1
           THEN /\ called' = called \cup {parser}
                /\ IF parser = "list"
                   THEN /\ apps' = <<>>
                        /\ all_apps' = <<>>
                        /\ UNCHANGED <<upgrade_apps, outdated_apps>>
                   ELSE /\ upgrade_apps' = <<>>
                        /\ outdated_apps' = <<>>
                        /\ UNCHANGED <<apps, all_apps>>
                /\ UNCHANGED scan
           ELSE /\ scan' = <<[parser |-> parser,
                              data   |-> PySliceFrom(lines, DataStartIndex(h)),
                              c      |-> IF parser = "list"
                                         THEN ListColumns(lines[h + 1])
                                         ELSE UpgradeColumns(lines[h + 1]),
                              k      |-> 0,
                              st     |-> ScanInit]>>
                /\ UNCHANGED <<called, apps, all_apps, upgrade_apps, outdated_apps>>
    /\ UNCHANGED <<output, apps_with_latest, raised, mainVars, agentVars>>

\* one iteration of the loop `for line in lines[data_start_index:]`
ScanLine ==
    /\ scan # <<>>
    /\ scan[1].k < Len(scan[1].data)
    /\ LET f    == scan[1]
           line == f.data[f.k + 1]
       IN  scan' = <<[f EXCEPT !.k = f.k + 1,
                               !.st = IF f.parser = "list"
                                      THEN ListStep(f.st, line, f.c)
                                      ELSE UpgradeStep(f.st, line, f.c)]>>
    /\ UNCHANGED <<output, called, apps, all_apps, upgrade_apps, outdated_apps,
                   apps_with_latest, raised, mainVars, agentVars>>

\* after the loop: the last app is saved, the filter pass runs and the
\* parser returns
ScanReturn ==
    /\ scan # <<>>
    /\ scan[1].k = Len(scan[1].data)
    /\ scan' = <<>>
    /\ called' = called \cup {scan[1].parser}
    /\ LET st == scan[1].st
       IN  IF st.raised
           THEN /\ raised' = TRUE
                /\ UNCHANGED <<apps, all_apps, upgrade_apps, outdated_apps>>
           ELSE /\ UNCHANGED raised
                /\ IF scan[1].parser = "list"
                   THEN /\ apps' = SaveApp(st.apps, st.current_app)
                        /\ all_apps' = ListFilter(apps')
                        /\ UNCHANGED <<upgrade_apps, outdated_apps>>
                   ELSE /\ upgrade_apps' = SaveApp(st.apps, st.current_app)
                        /\ outdated_apps' = UpgradeFilter(upgrade_apps')
                        /\ UNCHANGED <<apps, all_apps>>
    /\ UNCHANGED <<output, apps_with_latest, mainVars, agentVars>>

InitScan ==
    /\ output \in ScanInputs
    /\ called = {}
    /\ apps = <<>>
    /\ all_apps = <<>>
    /\ upgrade_apps = <<>>
    /\ outdated_apps = <<>>
    /\ apps_with_latest = <<>>
    /\ raised = FALSE
    /\ ScanIdle
    /\ MainIdle
    /\ AgentIdle

NextScan ==
    \/ \E parser \in {"list", "upgrade"} : ScanStart(parser)
    \/ ScanLine
    \/ ScanReturn

SpecScan == InitScan /\ [][NextScan]_vars

---------------------------------------------------------------------------
(* main *)

\* `not x` for x None or a str
Falsy(x) == x = <<>> \/ x[1] = <<>>

\* print(json.dumps(data)) and print(json.dumps(data, indent=2))
JsonPrint(data, indent) == [kind |-> "json", data |-> data, indent |-> indent]

\* print("Error fetching ... apps:", e) in get_installed_apps and
\* get_upgradable_apps
ErrorPrint(what) == [kind |-> "text", data |-> <<what>>, indent |-> "None"]

\* MainFallback that reports the latest version as "Unknown"
MainFallbackUnknown(installed_apps) ==
    [i \in 1..Len(installed_apps) |->
        WithLatest(installed_apps[i], Unknown, FALSE)]

\* lines 292-298: the apps without update info
MainFallback(installed_apps) ==
    [i \in 1..Len(installed_apps) |->
        WithLatest(installed_apps[i], installed_apps[i].current_version, FALSE)]

\* installed = get_installed_apps(); if not installed: print [] and return.
\* The command prints a text, or fails with a non-zero exit status (None,
\* after the error message is printed), or cannot be started (the exception
\* is not caught).
MainGetInstalled ==
    /\ pc = "get_installed"
    /\ \/ \E text \in TableInputs \cup {<<>>} :
             /\ installed' = <<text>>
             /\ IF text = <<>>
                THEN /\ printed' = Append(printed, JsonPrint(<<>>, "None"))
                     /\ pc' = "done"
                ELSE /\ pc' = "parse_list"
                     /\ UNCHANGED printed
             /\ UNCHANGED raised
       \/ /\ installed' = <<>>
          /\ printed' = printed \o <<ErrorPrint("Error fetching installed apps:"),
                                     JsonPrint(<<>>, "None")>>
          /\ pc' = "done"
          /\ UNCHANGED raised
       \/ /\ raised' = TRUE
          /\ pc' = "done"
          /\ UNCHANGED <<installed, printed>>
    /\ UNCHANGED <<output, called, apps, all_apps, upgrade_apps, outdated_apps,
                   apps_with_latest, scan, upgradable, agentVars>>

\* all_apps = parse_winget_list_output(installed); if not all_apps: print []
\* and return
MainParseList ==
    /\ pc = "parse_list"
    /\ LET r == ListAccumulate(installed[1])
       IN  IF r.raised
           THEN /\ raised' = TRUE
                /\ pc' = "done"
                /\ UNCHANGED <<apps, all_apps, printed>>
           ELSE /\ apps' = r.apps
                /\ all_apps' = parse_winget_list_output(installed[1])
                /\ IF all_apps' = <<>>
                   THEN /\ printed' = Append(printed, JsonPrint(<<>>, "None"))
                        /\ pc' = "done"
                   ELSE /\ pc' = "get_upgradable"
                        /\ UNCHANGED printed
                /\ UNCHANGED raised
    /\ UNCHANGED <<output, called, upgrade_apps, outdated_apps,
                   apps_with_latest, scan, installed, upgradable, agentVars>>

\* upgradable = get_upgradable_apps(); if not upgradable: print the apps
\* without update info and return
MainGetUpgradable ==
    /\ pc = "get_upgradable"
    /\ \/ \E text \in UpgradeTexts \cup {<<>>} :
             /\ upgradable' = <<text>>
             /\ IF text = <<>>
                THEN /\ apps_with_latest' = MainFallback(all_apps)
                     /\ printed' = Append(printed, JsonPrint(apps_with_latest', "2"))
                     /\ pc' = "done"
                ELSE /\ pc' = "parse_upgrade"
                     /\ UNCHANGED <<apps_with_latest, printed>>
             /\ UNCHANGED raised
       \/ /\ upgradable' = <<>>
          /\ apps_with_latest' = MainFallback(all_apps)
          /\ printed' = printed \o <<ErrorPrint("Error fetching upgradable apps:"),
                                     JsonPrint(apps_with_latest', "2")>>
          /\ pc' = "done"
          /\ UNCHANGED raised
       \/ /\ raised' = TRUE
          /\ pc' = "done"
          /\ UNCHANGED <<upgradable, apps_with_latest, printed>>
    /\ UNCHANGED <<output, called, apps, all_apps, upgrade_apps, outdated_apps,
                   scan, installed, agentVars>>

\* outdated_apps = parse_winget_upgrade_output(upgradable)
MainParseUpgrade ==
    /\ pc = "parse_upgrade"
    /\ LET r == UpgradeAccumulate(upgradable[1])
       IN  IF r.raised
           THEN /\ raised' = TRUE
                /\ pc' = "done"
                /\ UNCHANGED <<upgrade_apps, outdated_apps>>
           ELSE /\ upgrade_apps' = r.apps
                /\ outdated_apps' = parse_winget_upgrade_output(upgradable[1])
                /\ pc' = "merge"
                /\ UNCHANGED raised
    /\ UNCHANGED <<output, called, apps, all_apps, apps_with_latest, scan,
                   installed, upgradable, printed, agentVars>>

\* apps_with_latest = merge_installed_with_upgradable(all_apps, outdated_apps)
\* and print(json.dumps(apps_with_latest, indent=2))
MainMerge ==
    /\ pc = "merge"
    /\ pc' = "done"
    /\ IF MergeRaises(all_apps, outdated_apps)
       THEN /\ raised' = TRUE
            /\ UNCHANGED <<apps_with_latest, printed>>
       ELSE /\ apps_with_latest' =
                   merge_installed_with_upgradable(all_apps, outdated_apps)
            /\ printed' = Append(printed, JsonPrint(apps_with_latest', "2"))
            /\ UNCHANGED raised
    /\ UNCHANGED <<output, called, apps, all_apps, upgrade_apps, outdated_apps,
                   scan, installed, upgradable, agentVars>>

InitMain ==
    /\ output = <<>>
    /\ called = {}
    /\ apps = <<>>
    /\ all_apps = <<>>
    /\ upgrade_apps = <<>>
    /\ outdated_apps = <<>>
    /\ apps_with_latest = <<>>
    /\ raised = FALSE
    /\ ScanIdle
    /\ installed = <<>>
    /\ upgradable = <<>>
    /\ printed = <<>>
    /\ pc = "get_installed"
    /\ AgentIdle

NextMain ==
    \/ MainGetInstalled
    \/ MainParseList
    \/ MainGetUpgradable
    \/ MainParseUpgrade
    \/ MainMerge

SpecMain == InitMain /\ [][NextMain]_vars

---------------------------------------------------------------------------
(* AutoAgent: install_application, run and stop *)

\* the installation methods a caller may pass
Methods == {"WINGET", "CHOCOLATEY", "MANUAL"}

\* the app ids a caller may pass
RequestedIds == {"7zip.7zip", "Foo.Bar"}

\* how many method calls a behaviour follows
MaxCalls == 2

\* how many times a time.sleep(30) of the main loop runs to its end
MaxBeats == 1

\* how a subprocess.run(..., timeout=300, check=True) call ends: it returns,
\* or raises CalledProcessError (non-zero exit status), TimeoutExpired,
\* another exception (OSError when the program cannot be started), or
\* KeyboardInterrupt when the user presses Ctrl-C while it waits
RunOutcomes == {"ok", "CalledProcessError", "TimeoutExpired", "OSError",
                "KeyboardInterrupt"}

\* how the requests.post of send_status ends: the server answers 200; it
\* answers something else or requests raises an exception; or
\* KeyboardInterrupt, which send_status does not catch
SendOutcomes == {"delivered", "refused", "KeyboardInterrupt"}

\* how a print call ends: it returns, or it raises an exception
\* (UnicodeEncodeError when the encoding of stdout lacks a character of the
\* line, BrokenPipeError or another OSError when stdout cannot be written)
PrintOutcomes == {"ok", "raises"}

\* how the prints of send_status end, after its request: a line is printed
\* and send_status returns; the print of its try and the print of its
\* except clause both raise an exception; or KeyboardInterrupt is raised
EchoOutcomes == PrintOutcomes \cup {"KeyboardInterrupt"}

\* the except clause that handles an exception raised in the outer try;
\* KeyboardInterrupt is not an Exception and leaves install_application
Handler(outcome) ==
    IF outcome = "TimeoutExpired" THEN "failed_timeout"
    ELSE IF outcome = "CalledProcessError" THEN "failed_error"
    ELSE IF outcome = "KeyboardInterrupt" THEN "install_raised"
    ELSE "failed_unexpected"

\* where control goes after the --id attempt: the inner except clause
\* catches CalledProcessError only
AfterRunId(outcome) ==
    IF outcome = "ok" THEN "send_success"
    ELSE IF outcome = "CalledProcessError" THEN "run_name"
    ELSE Handler(outcome)

\* where control goes after the --name attempt and after the choco call
AfterRun(outcome) ==
    IF outcome = "ok" THEN "send_success" ELSE Handler(outcome)

\* self.send_status(status, message): the call is recorded with how its
\* request ended
Sent(status, outcome) == [status |-> status, outcome |-> outcome]

\* where control goes after a send_status call.  KeyboardInterrupt, of the
\* request or of a print, passes through send_status (`interrupted`).
\* Otherwise send_status prints one line in its try and, when that raises
\* or the request has raised, one in its except clause: it returns a bool
\* that every caller ignores (`next`), unless the print of the except
\* clause raises too (`failed`).
AfterSend(outcome, echo, next, interrupted, failed) ==
    IF outcome = "KeyboardInterrupt" \/ echo = "KeyboardInterrupt" THEN interrupted
    ELSE IF echo = "ok" THEN next
    ELSE failed

\* the main thread is in no method of the agent
Between == {"idle", "install_done", "install_raised", "run_returned",
            "run_raised"}

\* the main thread is in stop()
StopOnMain ==
    \E j \in 1..Len(stop_pc) : stop_pc[j] \in {"enter_main", "send_main"}

\* where control goes when KeyboardInterrupt is raised in the main thread
\* before the statement at `at` has made its call: run catches it inside
\* the try of its loop only, install_application nowhere
Interrupted(at) ==
    IF at \in {"beat", "wait"} THEN "run_interrupted"
    ELSE IF at \in {"run_print", "run_online", "loop", "run_interrupted",
                    "run_error"} THEN "run_raised"
    ELSE "install_raised"

\* the variables of the other entry points
Elsewhere == <<output, called, apps, all_apps, upgrade_apps, outdated_apps,
               apps_with_latest, raised, scan, mainVars>>

\* install_application(app_name, app_id, installation_method) is called on
\* the main thread; a behaviour follows one call of it
AgentCallInstall ==
    /\ agent_pc \in Between
    /\ ~StopOnMain
    /\ Len(calls) < MaxCalls
    /\ \A i \in 1..Len(calls) : calls[i] # "install_application"
    /\ installation_method' \in Methods
    /\ requested_id' \in RequestedIds
    /\ calls' = Append(calls, "install_application")
    /\ agent_pc' = "print_banner"
    /\ UNCHANGED <<stop_pc, sent, ran, result, running, beats>>
    /\ UNCHANGED Elsewhere

\* the three print calls before the try
AgentPrintBanner ==
    /\ agent_pc = "print_banner"
    /\ \E shown \in PrintOutcomes :
           agent_pc' = IF shown = "ok" THEN "send_installing"
                       ELSE "install_raised"
    /\ UNCHANGED <<installation_method, requested_id, stop_pc, sent, ran,
                   result, running, beats, calls>>
    /\ UNCHANGED Elsewhere

\* self.send_status("INSTALLING", ...), before the try, and the test of
\* installation_method
AgentSendInstalling ==
    /\ agent_pc = "send_installing"
    /\ \E outcome \in SendOutcomes, echo \in EchoOutcomes :
           /\ sent' = Append(sent, Sent("INSTALLING", outcome))
           /\ agent_pc' = AfterSend(outcome, echo,
                              IF installation_method = "WINGET" THEN "run_id"
                              ELSE IF installation_method = "CHOCOLATEY" THEN "run_choco"
                              ELSE "failed_unsupported",
                              "install_raised", "install_raised")
    /\ UNCHANGED <<installation_method, requested_id, stop_pc, ran, result,
                   running, beats, calls>>
    /\ UNCHANGED Elsewhere

\* winget upgrade --id app_id
AgentRunId ==
    /\ agent_pc = "run_id"
    /\ \E outcome \in RunOutcomes :
           /\ ran' = Append(ran, [args |-> <<"winget", "upgrade", "--id", requested_id>>,
                                  outcome |-> outcome])
           /\ agent_pc' = AfterRunId(outcome)
    /\ UNCHANGED <<installation_method, requested_id, stop_pc, sent, result,
                   running, beats, calls>>
    /\ UNCHANGED Elsewhere

\* winget upgrade --name app_id, in the inner except clause
AgentRunName ==
    /\ agent_pc = "run_name"
    /\ \E outcome \in RunOutcomes :
           /\ ran' = Append(ran, [args |-> <<"winget", "upgrade", "--name", requested_id>>,
                                  outcome |-> outcome])
           /\ agent_pc' = AfterRun(outcome)
    /\ UNCHANGED <<installation_method, requested_id, stop_pc, sent, result,
                   running, beats, calls>>
    /\ UNCHANGED Elsewhere

\* choco upgrade app_id -y
AgentRunChoco ==
    /\ agent_pc = "run_choco"
    /\ \E outcome \in RunOutcomes :
           /\ ran' = Append(ran, [args |-> <<"choco", "upgrade", requested_id, "-y">>,
                                  outcome |-> outcome])
           /\ agent_pc' = AfterRun(outcome)
    /\ UNCHANGED <<installation_method, requested_id, stop_pc, sent, result,
                   running, beats, calls>>
    /\ UNCHANGED Elsewhere

\* print("... Successfully installed ...") and self.send_status("SUCCESS",
\* ...), inside the outer try: an exception of either is handled by its
\* `except Exception` clause
AgentSendSuccess ==
    /\ agent_pc = "send_success"
    /\ \E shown \in PrintOutcomes :
           IF shown = "raises"
           THEN /\ agent_pc' = "failed_unexpected"
                /\ sent' = sent
           ELSE \E outcome \in SendOutcomes, echo \in EchoOutcomes :
                    /\ sent' = Append(sent, Sent("SUCCESS", outcome))
                    /\ agent_pc' = AfterSend(outcome, echo, "return_true",
                                             "install_raised", "failed_unexpected")
    /\ UNCHANGED <<installation_method, requested_id, stop_pc, ran, result,
                   running, beats, calls>>
    /\ UNCHANGED Elsewhere

\* the else branch: print("... Unsupported installation method ...") and
\* self.send_status("FAILED", ...), inside the outer try
AgentSendUnsupported ==
    /\ agent_pc = "failed_unsupported"
    /\ \E shown \in PrintOutcomes :
           IF shown = "raises"
           THEN /\ agent_pc' = "failed_unexpected"
                /\ sent' = sent
           ELSE \E outcome \in SendOutcomes, echo \in EchoOutcomes :
                    /\ sent' = Append(sent, Sent("FAILED", outcome))
                    /\ agent_pc' = AfterSend(outcome, echo, "return_false",
                                             "install_raised", "failed_unexpected")
    /\ UNCHANGED <<installation_method, requested_id, stop_pc, ran, result,
                   running, beats, calls>>
    /\ UNCHANGED Elsewhere

\* the three outer except clauses: print and self.send_status("FAILED",
\* ...); an exception raised in an except clause leaves install_application
AgentSendFailed ==
    /\ agent_pc \in {"failed_timeout", "failed_error", "failed_unexpected"}
    /\ \E shown \in PrintOutcomes :
           IF shown = "raises"
           THEN /\ agent_pc' = "install_raised"
                /\ sent' = sent
           ELSE \E outcome \in SendOutcomes, echo \in EchoOutcomes :
                    /\ sent' = Append(sent, Sent("FAILED", outcome))
                    /\ agent_pc' = AfterSend(outcome, echo, "return_false",
                                             "install_raised", "install_raised")
    /\ UNCHANGED <<installation_method, requested_id, stop_pc, ran, result,
                   running, beats, calls>>
    /\ UNCHANGED Elsewhere

\* return True / return False
AgentReturn ==
    /\ agent_pc \in {"return_true", "return_false"}
    /\ result' = <<agent_pc = "return_true">>
    /\ agent_pc' = "install_done"
    /\ UNCHANGED <<installation_method, requested_id, stop_pc, sent, ran,
                   running, beats, calls>>
    /\ UNCHANGED Elsewhere

\* stop() is entered: on the main thread when it is in no method, or on
\* another thread at any time
AgentStopCall ==
    /\ Len(calls) < MaxCalls
    /\ calls' = Append(calls, "stop")
    /\ \/ stop_pc' = Append(stop_pc, "enter")
       \/ /\ agent_pc \in Between
          /\ ~StopOnMain
          /\ stop_pc' = Append(stop_pc, "enter_main")
    /\ UNCHANGED <<installation_method, requested_id, agent_pc, sent, ran,
                   result, running, beats>>
    /\ UNCHANGED Elsewhere

\* stop(): self.running = False
AgentStopAssign ==
    /\ \E j \in 1..Len(stop_pc) :
           /\ stop_pc[j] \in {"enter", "enter_main"}
           /\ stop_pc' = [stop_pc EXCEPT
                              ![j] = IF @ = "enter" THEN "send" ELSE "send_main"]
    /\ running' = FALSE
    /\ UNCHANGED <<installation_method, requested_id, agent_pc, sent, ran,
                   result, beats, calls>>
    /\ UNCHANGED Elsewhere

\* stop(): self.send_status("OFFLINE", "Auto agent stopped");
\* KeyboardInterrupt is raised in the main thread only
AgentStopSend ==
    /\ \E j \in 1..Len(stop_pc) :
           /\ stop_pc[j] \in {"send", "send_main"}
           /\ \E outcome \in SendOutcomes, echo \in EchoOutcomes :
                  /\ "KeyboardInterrupt" \in {outcome, echo} => stop_pc[j] = "send_main"
                  /\ sent' = Append(sent, Sent("OFFLINE", outcome))
                  /\ stop_pc' = [stop_pc EXCEPT
                                     ![j] = AfterSend(outcome, echo, "stopped",
                                                      "stop_raised", "stop_raised")]
    /\ UNCHANGED <<installation_method, requested_id, agent_pc, ran, result,
                   running, beats, calls>>
    /\ UNCHANGED Elsewhere

\* run() is called on the main thread
AgentCallRun ==
    /\ agent_pc \in Between
    /\ ~StopOnMain
    /\ Len(calls) < MaxCalls
    /\ calls' = Append(calls, "run")
    /\ beats' = 0
    /\ agent_pc' = "run_print"
    /\ UNCHANGED <<installation_method, requested_id, stop_pc, sent, ran,
                   result, running>>
    /\ UNCHANGED Elsewhere

\* run(): the six print calls, then self.running = True
AgentRunPrint ==
    /\ agent_pc = "run_print"
    /\ \E shown \in PrintOutcomes :
           IF shown = "ok"
           THEN running' = TRUE /\ agent_pc' = "run_online"
           ELSE running' = running /\ agent_pc' = "run_raised"
    /\ UNCHANGED <<installation_method, requested_id, stop_pc, sent, ran,
                   result, beats, calls>>
    /\ UNCHANGED Elsewhere

\* run(): self.send_status("ONLINE", "Auto agent started"), before the loop
AgentRunOnline ==
    /\ agent_pc = "run_online"
    /\ \E outcome \in SendOutcomes, echo \in EchoOutcomes :
           /\ sent' = Append(sent, Sent("ONLINE", outcome))
           /\ agent_pc' = AfterSend(outcome, echo, "loop", "run_raised",
                                    "run_raised")
    /\ UNCHANGED <<installation_method, requested_id, stop_pc, ran, result,
                   running, beats, calls>>
    /\ UNCHANGED Elsewhere

\* run(): while self.running; run returns when it is False
AgentRunLoop ==
    /\ agent_pc = "loop"
    /\ agent_pc' = IF running THEN "beat" ELSE "run_returned"
    /\ UNCHANGED <<installation_method, requested_id, stop_pc, sent, ran,
                   result, running, beats, calls>>
    /\ UNCHANGED Elsewhere

\* run(): the heartbeat self.send_status("ONLINE", "Auto agent is running")
\* inside the try of the loop
AgentRunBeat ==
    /\ agent_pc = "beat"
    /\ \E outcome \in SendOutcomes, echo \in EchoOutcomes :
           /\ sent' = Append(sent, Sent("ONLINE", outcome))
           /\ agent_pc' = AfterSend(outcome, echo, "wait", "run_interrupted",
                                    "run_error")
    /\ UNCHANGED <<installation_method, requested_id, stop_pc, ran, result,
                   running, beats, calls>>
    /\ UNCHANGED Elsewhere

\* run(): self.check_for_installations() and time.sleep(30) run to their end
AgentRunWait ==
    /\ agent_pc = "wait"
    /\ beats < MaxBeats
    /\ beats' = beats + 1
    /\ agent_pc' = "loop"
    /\ UNCHANGED <<installation_method, requested_id, stop_pc, sent, ran,
                   result, running, calls>>
    /\ UNCHANGED Elsewhere

\* run(): self.check_for_installations() raises an exception: a print in
\* its try and the print of its except clause have raised
AgentRunCheckRaises ==
    /\ agent_pc = "wait"
    /\ agent_pc' = "run_error"
    /\ UNCHANGED <<installation_method, requested_id, stop_pc, sent, ran,
                   result, running, beats, calls>>
    /\ UNCHANGED Elsewhere

\* run(): except Exception in the loop: print, then time.sleep(30) runs to
\* its end; an exception of the print leaves run
AgentRunError ==
    /\ agent_pc = "run_error"
    /\ \E shown \in PrintOutcomes :
           IF shown = "raises"
           THEN /\ agent_pc' = "run_raised"
                /\ beats' = beats
           ELSE /\ beats < MaxBeats
                /\ beats' = beats + 1
                /\ agent_pc' = "loop"
    /\ UNCHANGED <<installation_method, requested_id, stop_pc, sent, ran,
                   result, running, calls>>
    /\ UNCHANGED Elsewhere

\* run(): except KeyboardInterrupt in the loop: print,
\* send_status("OFFLINE", ...) and break; self.running stays as it is
AgentRunInterrupted ==
    /\ agent_pc = "run_interrupted"
    /\ \E shown \in PrintOutcomes :
           IF shown = "raises"
           THEN /\ agent_pc' = "run_raised"
                /\ sent' = sent
           ELSE \E outcome \in SendOutcomes, echo \in EchoOutcomes :
                    /\ sent' = Append(sent, Sent("OFFLINE", outcome))
                    /\ agent_pc' = AfterSend(outcome, echo, "run_returned",
                                             "run_raised", "run_raised")
    /\ UNCHANGED <<installation_method, requested_id, stop_pc, ran, result,
                   running, beats, calls>>
    /\ UNCHANGED Elsewhere

\* the user presses Ctrl-C while the main thread is in a method and not
\* waiting in a request or a program: in stop() before self.running = False
\* or before its request, or in install_application or run
AgentCtrlC ==
    /\ IF StopOnMain
       THEN /\ \E j \in 1..Len(stop_pc) :
                   /\ stop_pc[j] \in {"enter_main", "send_main"}
                   /\ stop_pc' = [stop_pc EXCEPT ![j] = "stop_raised"]
            /\ agent_pc' = agent_pc
       ELSE /\ agent_pc \notin Between
            /\ agent_pc' = Interrupted(agent_pc)
            /\ stop_pc' = stop_pc
    /\ UNCHANGED <<installation_method, requested_id, sent, ran, result,
                   running, beats, calls>>
    /\ UNCHANGED Elsewhere

\* AutoAgent(agent_id, api_key, server_url) has been constructed
InitAgent ==
    /\ output = <<>>
    /\ called = {}
    /\ apps = <<>>
    /\ all_apps = <<>>
    /\ upgrade_apps = <<>>
    /\ outdated_apps = <<>>
    /\ apps_with_latest = <<>>
    /\ raised = FALSE
    /\ ScanIdle
    /\ MainIdle
    /\ AgentIdle

NextAgent ==
    \/ AgentCallInstall
    \/ AgentPrintBanner
    \/ AgentSendInstalling
    \/ AgentRunId
    \/ AgentRunName
    \/ AgentRunChoco
    \/ AgentSendSuccess
    \/ AgentSendUnsupported
    \/ AgentSendFailed
    \/ AgentReturn
    \/ AgentStopCall
    \/ AgentStopAssign
    \/ AgentStopSend
    \/ AgentCallRun
    \/ AgentRunPrint
    \/ AgentRunOnline
    \/ AgentRunLoop
    \/ AgentRunBeat
    \/ AgentRunWait
    \/ AgentRunCheckRaises
    \/ AgentRunError
    \/ AgentRunInterrupted
    \/ AgentCtrlC

SpecAgent == InitAgent /\ [][NextAgent]_vars

---------------------------------------------------------------------------
(* Reconciliation properties, checked under SpecMerge *)

Merged == "merge" \in called /\ ~raised

\* the positions of the upgrade records an installed record can match: those
\* with its id, when that id is not empty
Matches(app) ==
    {j \in 1..Len(outdated_apps) :
        app.id # <<>> /\ outdated_apps[j].id = app.id}

\* C1: the reconciled sequence has exactly the length of the installed
\* sequence, and its i-th record carries the name, id and current_version of
\* the i-th installed record: nothing is invented, dropped or reordered.
C1_MergeKeepsInstalled ==
    Merged =>
        /\ Len(apps_with_latest) = Len(all_apps)
        /\ \A i \in 1..Len(all_apps) :
              /\ apps_with_latest[i].name = all_apps[i].name
              /\ apps_with_latest[i].id = all_apps[i].id
              /\ apps_with_latest[i].current_version = all_apps[i].current_version

\* two different installed records, one matched and one not, were reconciled
C1_Witness ==
    /\ Merged
    /\ Len(all_apps) >= 2
    /\ all_apps[1] # all_apps[2]
    /\ Matches(all_apps[1]) = {}
    /\ Matches(all_apps[2]) # {}

\* C2: an installed record whose id matches an upgrade record gets that
\* record's available_version as latest_version, and update_available is
\* true exactly when current and latest version differ and neither is the
\* literal "Unknown"; so no record flagged for update carries "Unknown", and
\* a match with equal versions is not flagged.
C2_HitVersionAndFlag ==
    Merged =>
        \A i \in 1..Len(all_apps) :
            LET app == all_apps[i]
                out == apps_with_latest[i]
            IN  Matches(app) # {} =>
                  /\ out.latest_version \in
                        {outdated_apps[j].available_version : j \in Matches(app)}
                  /\ out.update_available \in BOOLEAN
                  /\ out.update_available <=>
                        /\ app.current_version # out.latest_version
                        /\ app.current_version # Unknown
                        /\ out.latest_version # Unknown
                  /\ out.update_available =>
                        /\ out.current_version # Unknown
                        /\ out.latest_version # Unknown
                  /\ app.current_version = out.latest_version =>
                        ~out.update_available

\* one matched record is flagged, another matched record is not because its
\* latest version is "Unknown"
C2_Witness ==
    /\ Merged
    /\ \E i \in 1..Len(all_apps) :
          Matches(all_apps[i]) # {} /\ apps_with_latest[i].update_available
    /\ \E i \in 1..Len(all_apps) :
          /\ Matches(all_apps[i]) # {}
          /\ apps_with_latest[i].latest_version = Unknown
          /\ all_apps[i].current_version # Unknown
          /\ ~apps_with_latest[i].update_available

\* C3: an installed record whose id is absent from the upgrade mapping gets
\* update_available false and its own current_version as latest_version.
C3_MissKeepsCurrent ==
    Merged =>
        \A i \in 1..Len(all_apps) :
            Matches(all_apps[i]) = {} =>
                /\ apps_with_latest[i].update_available = FALSE
                /\ apps_with_latest[i].latest_version = all_apps[i].current_version

\* a record with an id no upgrade record has, next to upgrade records
C3_Witness ==
    /\ Merged
    /\ Len(outdated_apps) >= 1
    /\ \E i \in 1..Len(all_apps) :
          all_apps[i].id # <<>> /\ Matches(all_apps[i]) = {}

\* C4: an installed record with an empty id is always a miss
\* (update_available false, latest_version = current_version), also when
\* upgrade records have an empty id too.
C4_EmptyIdNeverMatches ==
    Merged =>
        \A i \in 1..Len(all_apps) :
            all_apps[i].id = <<>> =>
                /\ apps_with_latest[i].update_available = FALSE
                /\ apps_with_latest[i].latest_version = all_apps[i].current_version

\* an installed record and an upgrade record both have the empty id, and the
\* upgrade record offers another version
C4_Witness ==
    /\ Merged
    /\ \E i \in 1..Len(all_apps) : \E j \in 1..Len(outdated_apps) :
          /\ all_apps[i].id = <<>>
          /\ outdated_apps[j].id = <<>>
          /\ outdated_apps[j].available_version # all_apps[i].current_version
          /\ outdated_apps[j].available_version # Unknown
          /\ all_apps[i].current_version # Unknown

---------------------------------------------------------------------------
(* Parser properties, checked under Spec *)

ListDone == "list" \in called /\ ~raised

UpgradeDone == "upgrade" \in called /\ ~raised

\* w occurs in line
HasWord(line, w) ==
    \E i \in 1..(Len(line) - Len(w) + 1) :
        \A k \in 1..Len(w) : line[i + k - 1] = w[k]

\* the lines of the raw input
InputLines == SplitLines(output)

\* C5: every record either parser returns has a name longer than one
\* character and a non-empty current_version.
C5_NameAndVersionPresent ==
    /\ \A i \in 1..Len(all_apps) :
          Len(all_apps[i].name) > 1 /\ all_apps[i].current_version # <<>>
    /\ \A i \in 1..Len(outdated_apps) :
          Len(outdated_apps[i].name) > 1 /\ outdated_apps[i].current_version # <<>>

\* the list parser accumulated a row with a one-character name, dropped it in
\* the filter pass and returned another row
C5_Witness ==
    /\ ListDone
    /\ \E i \in 1..Len(apps) : Len(apps[i].name) = 1
    /\ Len(all_apps) >= 1
    /\ Len(all_apps) < Len(apps)

\* C6: no call ever raises: the parsers return on every input text, and the
\* merge of their results returns.
C6_NeverRaises == raised = FALSE

\* the three calls returned on a text with a data line shorter than the Name
\* offset and a line with a non-ASCII character
C6_Witness ==
    /\ output = Join(<<Banner, HeaderIndented, Rule, RowShort, RowAccent>>, <<"\n">>)
    /\ called = {"list", "upgrade", "merge"}
    /\ ~raised

\* C7: an input of fewer than three lines, the empty string included, is
\* parsed to the empty sequence.
C7_FewerThanThreeLines ==
    Len(InputLines) < 3 => all_apps = <<>> /\ outdated_apps = <<>>

\* both parsers ran on a two-line text: a header and a well-formed row
C7_Witness ==
    /\ ListDone
    /\ UpgradeDone
    /\ output = Join(<<HeaderUpgrade, RowFoo>>, <<"\n">>)
    /\ Len(InputLines) = 2

NoHeaderLine ==
    \A n \in 1..Len(InputLines) :
        ~(/\ HasWord(InputLines[n], Name)
          /\ HasWord(InputLines[n], Id)
          /\ HasWord(InputLines[n], Version))

\* C8: when no line of the input contains all of Name, Id and Version, the
\* parse returns the empty sequence and raises nothing.
C8_NoHeaderNoRecords ==
    NoHeaderLine => all_apps = <<>> /\ outdated_apps = <<>> /\ ~raised

\* both parsers ran on a text of at least three lines, one of which has Name
\* and Version but no Id
C8_Witness ==
    /\ ListDone
    /\ UpgradeDone
    /\ NoHeaderLine
    /\ Len(InputLines) >= 4
    /\ HasWord(InputLines[1], Name)
    /\ HasWord(InputLines[1], Version)

\* the text of the installed-table scenario
ScenarioText == Join(<<HeaderList, Rule, Row7Zip>>, <<"\n">>)

\* C9 as stated: the scenario row yields the id "7zip.7zip"
C9_ScenarioAsStated ==
    (ListDone /\ output = ScenarioText) =>
        all_apps = <<[name |-> <<"7", "-", "Z", "i", "p">>,
                      id |-> <<"7", "z", "i", "p", ".", "7", "z", "i", "p">>,
                      current_version |-> <<"2", "3", ".", "0", "1">>]>>

\* C9 (amended): the scenario row yields exactly one record with name
\* "7-Zip", current_version "23.01" and the id "7zip.", the five characters
\* between the Id offset 7 and the Version offset 12.
C9_ScenarioFixedWidth ==
    (ListDone /\ output = ScenarioText) =>
        all_apps = <<[name |-> <<"7", "-", "Z", "i", "p">>,
                      id |-> <<"7", "z", "i", "p", ".">>,
                      current_version |-> <<"2", "3", ".", "0", "1">>]>>

\* the scenario text was parsed
C9_Witness == ListDone /\ output = ScenarioText /\ Len(all_apps) = 1

\* the whitespace-separated tokens of a field, by the position of their first
\* character
TokenStarts(f) ==
    {i \in 1..Len(f) : ~IsSpace(f[i]) /\ (i = 1 \/ IsSpace(f[i - 1]))}

TokenAt(f, i) ==
    SubSeq(f, i, SetMin({j \in i..Len(f) : j = Len(f) \/ IsSpace(f[j + 1])}))

\* the token has a '.', or is one or more digits once '.' and '-' are removed
VersionLike(tok) ==
    \/ \E k \in 1..Len(tok) : tok[k] = "."
    \/ LET rest == {k \in 1..Len(tok) : tok[k] \notin {".", "-"}}
       IN  rest # {} /\ \A k \in rest : tok[k] \in Digits

\* the first version-like token of the field, or its first token
ExpectedVersion(f) ==
    LET starts == TokenStarts(f)
        good   == {i \in starts : VersionLike(TokenAt(f, i))}
    IN  IF good # {} THEN TokenAt(f, SetMin(good))
        ELSE IF starts # {} THEN TokenAt(f, SetMin(starts))
        ELSE <<>>

\* the accumulated rows the filter pass emits
ListEmitted == SelectSeq(apps, LAMBDA a : Len(a.name) > 1)

UpgradeEmitted ==
    SelectSeq(upgrade_apps,
              LAMBDA a : Len(a.name) > 1 /\ a.available_version # <<>>)

\* C10: each version field of an emitted record is the first token of the
\* cleaned field that has a '.' or is all digits once '.' and '-' are
\* removed, and the first token when no token is like that.
C10_VersionRefinement ==
    /\ ListDone =>
          /\ Len(all_apps) = Len(ListEmitted)
          /\ \A i \in 1..Len(all_apps) :
                all_apps[i].current_version =
                    ExpectedVersion(ListEmitted[i].current_version)
    /\ UpgradeDone =>
          /\ Len(outdated_apps) = Len(UpgradeEmitted)
          /\ \A i \in 1..Len(outdated_apps) :
                /\ outdated_apps[i].current_version =
                      ExpectedVersion(UpgradeEmitted[i].current_version)
                /\ outdated_apps[i].available_version =
                      ExpectedVersion(UpgradeEmitted[i].available_version)

\* the upgrade row whose Available field is "1.2.0 <U+00A6> 1.2.1" was
\* emitted with available_version "1.2.0", next to a row whose current
\* version "v 1.0" starts with a token that is not version-like
C10_Witness ==
    /\ UpgradeDone
    /\ output = Join(<<HeaderUpgrade, Rule, RowFoo, RowWords>>, <<"\n">>)
    /\ \E k \in 1..Len(RowFoo) : RowFoo[k] = BrokenBar
    /\ outdated_apps =
          <<[name |-> <<"F", "o", "o">>, id |-> <<"F", "1">>,
             current_version |-> <<"1", ".", "0">>,
             available_version |-> <<"1", ".", "2", ".", "0">>],
            [name |-> <<"B", "a", "r">>, id |-> <<"B", "2">>,
             current_version |-> <<"1", ".", "0">>,
             available_version |-> <<"2", "-", "1">>]>>

---------------------------------------------------------------------------
(* The rows of the table, read off the input text *)

\* the offset of the first occurrence of keyword w in a line, -1 when the
\* line does not have it
Offset(line, w) ==
    LET at == {i \in 0..(Len(line) - Len(w)) :
                  \A k \in 1..Len(w) : line[i + k] = w[k]}
    IN  IF at = {} THEN -1 ELSE SetMin(at)

\* the table of a text: the lines the parsers work on, the header line (the
\* first with Name, Id and Version), the positions of the data lines (from
\* two lines after the header on, neither blank nor beginning with '-') and
\* of the record lines (a character other than ' ' at the Name offset)
Table(text) ==
    LET lines == SplitLines(Strip(text))
        hits == {n \in 1..Len(lines) :
                    /\ Offset(lines[n], Name) >= 0
                    /\ Offset(lines[n], Id) >= 0
                    /\ Offset(lines[n], Version) >= 0}
        pos == IF hits = {} THEN 0 ELSE SetMin(hits)
        header == IF pos = 0 THEN <<>> ELSE lines[pos]
        name_start == Offset(header, Name)
        data == IF pos = 0 THEN {}
                ELSE {n \in (pos + 2)..Len(lines) :
                         /\ \E i \in 1..Len(lines[n]) : ~IsSpace(lines[n][i])
                         /\ lines[n][1] # "-"}
        records == {n \in data :
                       /\ Len(lines[n]) > name_start
                       /\ lines[n][name_start + 1] # " "}
    IN  [lines |-> lines, header |-> header, data |-> data, records |-> records]

\* the fields of line n of a table after cleanup
ListFields(t, n) == ListEntry(t.lines[n], ListColumns(t.header))

UpgradeFields(t, n) == UpgradeEntry(t.lines[n], UpgradeColumns(t.header))

\* the fields of the record lines that qualify for the output of each
\* parser, in line order
ListQualifying(t) ==
    LET q == {n \in t.records :
                 LET e == ListFields(t, n)
                 IN  Len(e.name) > 1 /\ e.current_version # <<>>}
    IN  [k \in 1..Cardinality(q) |-> ListFields(t, Nth(q, k))]

UpgradeQualifying(t) ==
    LET q == {n \in t.records :
                 LET e == UpgradeFields(t, n)
                 IN  /\ Len(e.name) > 1
                     /\ e.current_version # <<>>
                     /\ e.available_version # <<>>}
    IN  [k \in 1..Cardinality(q) |-> UpgradeFields(t, Nth(q, k))]

---------------------------------------------------------------------------
(* Parser properties, continued *)

\* C11 as stated: a record line whose version field has no token after
\* cleanup is emitted with the version "Unknown".
C11_UnknownVersionEmitted ==
    ListDone =>
        LET t == Table(output)
        IN  \A n \in t.records :
                LET e == ListFields(t, n)
                IN  (Len(e.name) > 1 /\ Split(e.current_version) = <<>>)
                        => \E k \in 1..Len(all_apps) :
                              /\ all_apps[k].name = e.name
                              /\ all_apps[k].current_version = Unknown

\* C12: the installed-table parse returns exactly one record for each record
\* line whose name (longer than one character) and version are non-empty
\* after cleanup, a line with an empty id and the last line included.
C12_QualifyingRowsRetained ==
    ListDone =>
        LET q == ListQualifying(Table(output))
        IN  /\ Len(all_apps) = Len(q)
            /\ \A n \in 1..Len(q) :
                  \E k \in 1..Len(all_apps) :
                      /\ all_apps[k].name = q[n].name
                      /\ all_apps[k].id = q[n].id

\* the last line of the text is a record line with an empty id and is
\* returned after another record
C12_Witness ==
    /\ ListDone
    /\ Len(all_apps) >= 2
    /\ all_apps[Len(all_apps)].id = <<>>
    /\ LET t == Table(output)
       IN  /\ Len(t.lines) \in t.records
           /\ ListFields(t, Len(t.lines)).id = <<>>
           /\ ListFields(t, Len(t.lines)).name = all_apps[Len(all_apps)].name

\* C13: the records of a parser's output are in the order of their source
\* lines: the k-th record comes from the k-th qualifying line.
C13_SourceOrder ==
    /\ ListDone =>
          LET q == ListQualifying(Table(output))
          IN  \A k \in 1..Len(all_apps) :
                  /\ k <= Len(q)
                  /\ all_apps[k].name = q[k].name
                  /\ all_apps[k].id = q[k].id
    /\ UpgradeDone =>
          LET q == UpgradeQualifying(Table(output))
          IN  \A k \in 1..Len(outdated_apps) :
                  /\ k <= Len(q)
                  /\ outdated_apps[k].name = q[k].name
                  /\ outdated_apps[k].id = q[k].id

\* both parsers returned two records with different names
C13_Witness ==
    /\ ListDone
    /\ UpgradeDone
    /\ Len(all_apps) = 2
    /\ all_apps[1].name # all_apps[2].name
    /\ Len(outdated_apps) = 2
    /\ outdated_apps[1].name # outdated_apps[2].name

\* the ASCII control characters of the alphabet used here
AsciiControl ==
    {"\t", "\n", "\r", "U+0001", "U+000B", "U+000C", "U+001C", "U+001D",
     "U+001E", "U+001F"}

\* the fields of the records a parser returned, once it has returned
OutputFields ==
    {r[f] : <<r, f>> \in
        {<<all_apps[k], g>> : k \in 1..Len(all_apps),
                              g \in {"name", "id", "current_version"}}
        \cup {<<outdated_apps[k], g>> : k \in 1..Len(outdated_apps),
                 g \in {"name", "id", "current_version", "available_version"}}}

\* C15 as stated: no field of an output record has a non-ASCII character or
\* an ASCII control character.
C15_OnlyPrintableAscii ==
    \A s \in OutputFields :
        \A i \in 1..Len(s) : s[i] \notin NonAscii \cup AsciiControl

\* C15, amended: no field of an output record has a non-ASCII character
\* (ASCII control characters inside a field are kept).
C15_NoNonAscii ==
    \A s \in OutputFields : \A i \in 1..Len(s) : s[i] \notin NonAscii

\* a returned record comes from a line with a non-ASCII character, and a
\* returned id keeps the control character U+0001
C15_Witness ==
    /\ ListDone
    /\ LET t == Table(output)
       IN  \E n \in t.records :
               /\ \E i \in 1..Len(t.lines[n]) : t.lines[n][i] \in NonAscii
               /\ \E k \in 1..Len(all_apps) :
                      all_apps[k].name = ListFields(t, n).name
    /\ \E k \in 1..Len(all_apps) :
           \E i \in 1..Len(all_apps[k].id) : all_apps[k].id[i] = "U+0001"

\* C16 as stated: no field of an output record has two consecutive
\* whitespace characters.
C16_NoWhitespaceRun ==
    \A s \in OutputFields :
        \A i \in 1..(Len(s) - 1) : ~(IsSpace(s[i]) /\ IsSpace(s[i + 1]))

\* C16, amended: a version of an output record has no whitespace at all; a
\* name or an id has none at its ends (runs inside it are kept).
C16_VersionsCollapsedNamesTrimmed ==
    /\ \A k \in 1..Len(all_apps) :
          /\ \A i \in 1..Len(all_apps[k].current_version) :
                ~IsSpace(all_apps[k].current_version[i])
          /\ \A f \in {"name", "id"} :
                all_apps[k][f] = Strip(all_apps[k][f])
    /\ \A k \in 1..Len(outdated_apps) :
          /\ \A f \in {"current_version", "available_version"} :
                \A i \in 1..Len(outdated_apps[k][f]) :
                    ~IsSpace(outdated_apps[k][f][i])
          /\ \A f \in {"name", "id"} :
                outdated_apps[k][f] = Strip(outdated_apps[k][f])

\* a returned name keeps a run of spaces, and its line had a version of
\* several tokens
C16_Witness ==
    /\ ListDone
    /\ LET t == Table(output)
       IN  \E n \in t.records :
               /\ Len(Split(ListFields(t, n).current_version)) > 1
               /\ \E k \in 1..Len(all_apps) :
                      /\ all_apps[k].name = ListFields(t, n).name
                      /\ \E i \in 1..(Len(all_apps[k].name) - 1) :
                             /\ all_apps[k].name[i] = " "
                             /\ all_apps[k].name[i + 1] = " "

\* the text of a line from an offset to its end, after the cleanup of a
\* version field
RestOfLine(line, offset) ==
    CollapseWhitespace(Strip(AsciiIgnore(SubSeq(line, offset + 1, Len(line)))))

\* the record lines of a table with a non-empty name and some text from the
\* Version offset on
VersionedLines(t) ==
    {n \in t.records :
        /\ ListFields(t, n).name # <<>>
        /\ RestOfLine(t.lines[n], Offset(t.header, Version)) # <<>>}

\* C17 as stated, for the upgrade table: when the header has no Available
\* column, the current version of a record is the text from the Version
\* offset to the end of its line.
C17_UpgradeVersionToEndOfLine ==
    UpgradeDone =>
        LET t == Table(output)
        IN  Offset(t.header, Available) = -1 =>
                \A n \in VersionedLines(t) :
                    \E k \in 1..Len(upgrade_apps) :
                        /\ upgrade_apps[k].name = UpgradeFields(t, n).name
                        /\ upgrade_apps[k].current_version =
                              RestOfLine(t.lines[n], Offset(t.header, Version))

\* C17, amended: in the upgrade table a header without Available after
\* Version gives every record an empty current version, so no record is
\* kept; without Source after Available the available version runs to the
\* end of the line; in the installed table, without Source after Version the
\* current version runs to the end of the line.
C17_AbsentBoundary ==
    LET t == Table(output)
        v == Offset(t.header, Version)
        a == Offset(t.header, Available)
        s == Offset(t.header, Source)
    IN  /\ (UpgradeDone /\ a <= v) =>
              upgrade_apps = <<>> /\ outdated_apps = <<>>
        /\ (UpgradeDone /\ a > v /\ s <= a) =>
              \A k \in 1..Len(upgrade_apps) :
                  \E n \in t.records :
                      /\ upgrade_apps[k].name = UpgradeFields(t, n).name
                      /\ upgrade_apps[k].available_version =
                            RestOfLine(t.lines[n], a)
        /\ (ListDone /\ s <= v) =>
              /\ Len(apps) = Cardinality(VersionedLines(t))
              /\ \A n \in VersionedLines(t) :
                    \E k \in 1..Len(apps) :
                        /\ apps[k].name = ListFields(t, n).name
                        /\ apps[k].current_version = RestOfLine(t.lines[n], v)

\* a header without Available and without Source: the installed parse kept a
\* record with the rest of its line as version, the upgrade parse kept none
C17_Witness ==
    /\ ListDone
    /\ UpgradeDone
    /\ upgrade_apps = <<>>
    /\ LET t == Table(output)
       IN  /\ Offset(t.header, Available) = -1
           /\ Offset(t.header, Source) = -1
           /\ \E n \in VersionedLines(t) :
                 /\ Len(Split(RestOfLine(t.lines[n], Offset(t.header, Version)))) > 1
                 /\ \E k \in 1..Len(apps) :
                       apps[k].current_version =
                           RestOfLine(t.lines[n], Offset(t.header, Version))

\* C18 as stated: a data line starts a record iff it is longer than the
\* Name offset and its character there is not whitespace; the other data
\* lines produce no record.
C18_RecordIffNotWhitespace ==
    ListDone =>
        LET t == Table(output)
            name_start == Offset(t.header, Name)
            started == {n \in t.data :
                           /\ Len(t.lines[n]) > name_start
                           /\ ~IsSpace(t.lines[n][name_start + 1])}
            saved == {n \in started :
                         /\ ListFields(t, n).name # <<>>
                         /\ ListFields(t, n).current_version # <<>>}
        IN  /\ Len(apps) = Cardinality(saved)
            /\ \A k \in 1..Len(apps) :
                  \E n \in saved : apps[k].name = ListFields(t, n).name

\* the text of a line between two offsets, the second after the first, after
\* the cleanup of a version field
SpanOfLine(line, from, to) ==
    CollapseWhitespace(Strip(AsciiIgnore(
        SubSeq(line, from + 1, IF to < Len(line) THEN to ELSE Len(line)))))

\* C19 as stated: the version slice of the installed table runs from the
\* Version offset to the end of the line, for every header.
C19_VersionToEndOfLine ==
    ListDone =>
        LET t == Table(output)
        IN  \A n \in VersionedLines(t) :
                \E k \in 1..Len(apps) :
                    /\ apps[k].name = ListFields(t, n).name
                    /\ apps[k].current_version =
                          RestOfLine(t.lines[n], Offset(t.header, Version))

\* C19, amended: the version slice of the installed table runs from the
\* Version offset to the Source offset when the header has Source after
\* Version, and to the end of the line otherwise; Available does not end it.
C19_VersionToSource ==
    ListDone =>
        LET t == Table(output)
            v == Offset(t.header, Version)
            s == Offset(t.header, Source)
            slice(n) == IF s > v THEN SpanOfLine(t.lines[n], v, s)
                        ELSE RestOfLine(t.lines[n], v)
            saved == {n \in t.records :
                         ListFields(t, n).name # <<>> /\ slice(n) # <<>>}
        IN  /\ Len(apps) = Cardinality(saved)
            /\ \A n \in saved :
                  \E k \in 1..Len(apps) :
                      /\ apps[k].name = ListFields(t, n).name
                      /\ apps[k].current_version = slice(n)

\* under a header with Available and Source after Version, a kept version
\* has the text of the Available column and not that of the Source column
C19_Witness ==
    /\ ListDone
    /\ LET t == Table(output)
           v == Offset(t.header, Version)
           a == Offset(t.header, Available)
           s == Offset(t.header, Source)
       IN  /\ v < a
           /\ a < s
           /\ \E n \in t.records :
                 \E k \in 1..Len(apps) :
                     /\ apps[k].current_version = SpanOfLine(t.lines[n], v, s)
                     /\ apps[k].current_version # SpanOfLine(t.lines[n], v, a)
                     /\ apps[k].current_version # RestOfLine(t.lines[n], v)

\* C20 as stated: a parser that kept records sliced them with offsets that
\* increase strictly in keyword order.
C20_OffsetsIncreasing ==
    LET t == Table(output)
        n == Offset(t.header, Name)
        i == Offset(t.header, Id)
        v == Offset(t.header, Version)
        a == Offset(t.header, Available)
        s == Offset(t.header, Source)
    IN  /\ (ListDone /\ apps # <<>>) => (n < i /\ i < v)
        /\ (UpgradeDone /\ upgrade_apps # <<>>) =>
              /\ n < i
              /\ i < v
              /\ v < a
              /\ s = -1 \/ a < s

---------------------------------------------------------------------------
(* Header and column properties, checked under SpecTables *)

\* C21: the header is the first line with Name, Id and Version, whatever
\* else it looks like; every returned record is a line at least two lines
\* below it, sliced at its offsets, and there are no more records than such
\* lines.
C21_RecordsBelowHeader ==
    LET lines == SplitLines(Strip(output))
        hits == {n \in 1..Len(lines) :
                    /\ HasWord(lines[n], Name)
                    /\ HasWord(lines[n], Id)
                    /\ HasWord(lines[n], Version)}
        pos == IF hits = {} THEN Len(lines) ELSE SetMin(hits)
        below == (pos + 2)..Len(lines)
    IN  /\ ListDone =>
              /\ Len(all_apps) <= Cardinality(below)
              /\ \A k \in 1..Len(all_apps) :
                    \E n \in below :
                        LET e == ListEntry(lines[n], ListColumns(lines[pos]))
                        IN  all_apps[k].name = e.name /\ all_apps[k].id = e.id
        /\ UpgradeDone =>
              /\ Len(outdated_apps) <= Cardinality(below)
              /\ \A k \in 1..Len(outdated_apps) :
                    \E n \in below :
                        LET e == UpgradeEntry(lines[n], UpgradeColumns(lines[pos]))
                        IN  /\ outdated_apps[k].name = e.name
                            /\ outdated_apps[k].id = e.id

\* the first line is a data row with the three words and is taken as the
\* header; the second line is the same row as the third, and only the third
\* is returned
C21_Witness ==
    /\ ListDone
    /\ LET lines == SplitLines(Strip(output))
       IN  /\ Len(lines) = 3
           /\ lines[1] = RowHeaderLike
           /\ lines[2] = lines[3]
           /\ Len(all_apps) = 1
           /\ all_apps[1].name =
                  ListEntry(lines[3], ListColumns(RowHeaderLike)).name

\* C24: every record of the upgrade parse has a non-empty available_version:
\* a record line whose Available field is empty after cleanup is not
\* returned, and after the merge no record is flagged with an empty
\* latest_version.
C24_AvailableNonEmpty ==
    /\ UpgradeDone =>
          /\ \A k \in 1..Len(outdated_apps) :
                outdated_apps[k].available_version # <<>>
          /\ LET t == Table(output)
                 full == {n \in t.records :
                             UpgradeFields(t, n).available_version # <<>>}
             IN  Len(outdated_apps) <= Cardinality(full)
    /\ Merged =>
          \A k \in 1..Len(apps_with_latest) :
              apps_with_latest[k].update_available =>
                  apps_with_latest[k].latest_version # <<>>

\* a record line with a name and a current version but no available version:
\* the installed parse returns it, the upgrade parse does not, and the merge
\* leaves it unflagged
C24_Witness ==
    /\ Merged
    /\ outdated_apps = <<>>
    /\ Len(upgrade_apps) = 1
    /\ upgrade_apps[1].available_version = <<>>
    /\ upgrade_apps[1].current_version # <<>>
    /\ Len(apps_with_latest) = 1
    /\ apps_with_latest[1].name = upgrade_apps[1].name
    /\ ~apps_with_latest[1].update_available

---------------------------------------------------------------------------
(* Reconciliation properties, continued; checked under SpecMerge *)

\* C23: when several upgrade records have the id of an installed record,
\* its latest_version is the available_version of the last of them.
C23_LastDuplicateWins ==
    Merged =>
        \A i \in 1..Len(all_apps) :
            Matches(all_apps[i]) # {} =>
                apps_with_latest[i].latest_version =
                    outdated_apps[SetMax(Matches(all_apps[i]))].available_version

\* two upgrade records with the id of an installed record and different
\* available versions: the second one is taken
C23_Witness ==
    /\ Merged
    /\ Len(outdated_apps) = 2
    /\ outdated_apps[1].available_version # outdated_apps[2].available_version
    /\ \E i \in 1..Len(all_apps) :
           /\ Matches(all_apps[i]) = {1, 2}
           /\ apps_with_latest[i].latest_version = outdated_apps[2].available_version

---------------------------------------------------------------------------
(* The two parsers on one table, checked under Spec *)

\* C25 as stated: under a header with Name, Id, Version, Available and Source
\* in that order, every record of the upgrade parse is also a record of the
\* installed parse, with the same name, id and current_version.
C25_ParsersAgree ==
    (ListDone /\ UpgradeDone) =>
        LET h == Table(output).header
        IN  (/\ 0 <= Offset(h, Name)
             /\ Offset(h, Name) < Offset(h, Id)
             /\ Offset(h, Id) < Offset(h, Version)
             /\ Offset(h, Version) < Offset(h, Available)
             /\ Offset(h, Available) < Offset(h, Source))
            => \A k \in 1..Len(outdated_apps) :
                   \E j \in 1..Len(all_apps) :
                       /\ all_apps[j].name = outdated_apps[k].name
                       /\ all_apps[j].id = outdated_apps[k].id
                       /\ all_apps[j].current_version =
                              outdated_apps[k].current_version

---------------------------------------------------------------------------
(* The data-line loop, checked under SpecScan *)

\* a line the loop passes over: blank, beginning with '-', or a continuation
\* (too short for the Name offset, or with a space there)
PassedOver(line, name_start) ==
    \/ \A i \in 1..Len(line) : IsSpace(line[i])
    \/ line[1] = "-"
    \/ Len(line) <= name_start
    \/ line[name_start + 1] = " "

\* C22: an iteration of the loop over a blank line, a line beginning with
\* '-' or a continuation line changes neither the pending record nor the
\* records already appended.
C22_PassedOverLinesFrame ==
    [][(/\ scan # <<>>
        /\ scan' # <<>>
        /\ scan'[1].k = scan[1].k + 1
        /\ PassedOver(scan[1].data[scan'[1].k],
                      Offset(Table(output).header, Name)))
       => /\ scan'[1].st.current_app = scan[1].st.current_app
          /\ scan'[1].st.apps = scan[1].st.apps]_vars

\* the loop has just passed over a continuation line, with a record pending
\* and another one already appended
C22_Witness ==
    /\ scan # <<>>
    /\ scan[1].k >= 1
    /\ LET line == scan[1].data[scan[1].k]
           name_start == Offset(Table(output).header, Name)
       IN  /\ \E i \in 1..Len(line) : ~IsSpace(line[i])
           /\ line[1] # "-"
           /\ PassedOver(line, name_start)
    /\ scan[1].st.current_app # <<>>
    /\ scan[1].st.apps # <<>>

---------------------------------------------------------------------------
(* main, checked under SpecMain *)

\* the documents main has printed with json.dumps
IsJsonPrint(p) == p.kind = "json"

JsonPrinted == SelectSeq(printed, IsJsonPrint)

\* main has returned through the branch of line 291: the installed list
\* parsed to a non-empty sequence and the upgradable listing is None or ""
FellBack == pc = "done" /\ ~raised /\ all_apps # <<>> /\ Falsy(upgradable)

\* C26: when the installed list parsed to a non-empty sequence and the
\* upgradable listing is None or empty, the one document main emits, and the
\* last thing it prints, is merge_installed_with_upgradable(all_apps, []):
\* one record per installed package, in order, with the fields of the
\* package, latest_version = current_version and update_available false.
C26_FallbackIsMerge ==
    FellBack =>
        /\ Len(JsonPrinted) = 1
        /\ printed[Len(printed)] = JsonPrinted[1]
        /\ JsonPrinted[1].data = merge_installed_with_upgradable(all_apps, <<>>)
        /\ Len(JsonPrinted[1].data) = Len(all_apps)
        /\ \A i \in 1..Len(all_apps) :
              /\ JsonPrinted[1].data[i].name = all_apps[i].name
              /\ JsonPrinted[1].data[i].id = all_apps[i].id
              /\ JsonPrinted[1].data[i].current_version = all_apps[i].current_version
              /\ JsonPrinted[1].data[i].latest_version = all_apps[i].current_version
              /\ JsonPrinted[1].data[i].update_available = FALSE

\* `winget upgrade` failed after two packages were parsed: the error line
\* and then the document of the two packages have been printed
C26_Witness ==
    /\ FellBack
    /\ upgradable = <<>>
    /\ Len(all_apps) = 2
    /\ Len(printed) = 2
    /\ printed[1].kind = "text"
    /\ Len(printed[2].data) = 2

---------------------------------------------------------------------------
(* install_application, checked under SpecAgent *)

\* the statuses sent so far
Statuses == [i \in 1..Len(sent) |-> sent[i].status]

\* the statuses sent by install_application: run and stop send only ONLINE
\* and OFFLINE
IsInstallStatus(s) == s \in {"INSTALLING", "SUCCESS", "FAILED"}

InstallStatuses == SelectSeq(Statuses, IsInstallStatus)

\* C27: every call of install_application, however it ends, has sent
\* INSTALLING first and then exactly one of SUCCESS and FAILED, has returned
\* True exactly when that status is SUCCESS, and has retried with --name
\* only after the --id attempt exited with an error.
C27_InstallingThenOneTerminal ==
    agent_pc \in {"install_done", "install_raised"} =>
        /\ InstallStatuses \in {<<"INSTALLING", "SUCCESS">>,
                                <<"INSTALLING", "FAILED">>}
        /\ result = <<InstallStatuses[2] = "SUCCESS">>
        /\ \A i \in 1..Len(ran) :
              ran[i].args[3] = "--name" =>
                  /\ i = 2
                  /\ ran[1].args[3] = "--id"
                  /\ ran[1].outcome = "CalledProcessError"

=============================================================================
